---------------------------- MODULE Spec2Model ----------------------------
(***************************************************************************)
(* Model of the deterministic core of the complaint-review pipeline:       *)
(*   src/src/complaint_parser.py    (ComplaintDocumentParser)              *)
(*   src/src/attachment_analyzer.py (AttachmentAnalyzer)                   *)
(*                                                                         *)
(* Text is a sequence of characters.  A character is a one-element string  *)
(* for ASCII ("1", "-", " ") and the string "U+XXXX" of its code point     *)
(* otherwise ("U+5143" is the yuan unit glyph).  Python dicts are records, *)
(* d.get(k, default) is Get(d, k, default); list(set(xs)) is a set.        *)
(***************************************************************************)
EXTENDS Integers, Sequences, FiniteSets, TLC

VARIABLES
    pc,            \* position of the run: "input", "parsed", "done"; "call" before a lone call
    doc_result,    \* the Word reader's result: [file_name, content]
    section2,      \* sections['section2_investigation'] handed to the analyzer
    section3,      \* sections['section3_handling'] handed to the analyzer
    ocr_results,   \* list of attachment records [file_name, content]
    checklist,     \* the result of generate_attachment_checklist
    arg,           \* the argument of a function called on its own
    ret            \* what that call returned

vars == <<pc, doc_result, section2, section3, ocr_results, checklist, arg, ret>>

-----------------------------------------------------------------------------
(* Python built-ins on dicts, lists and strings *)

Get(d, k, default) == IF k \in DOMAIN d THEN d[k] ELSE default

Range(s) == {s[i] : i \in 1..Len(s)}

Min(a, b) == IF a < b THEN a ELSE b

Max(a, b) == IF a > b THEN a ELSE b

Rep(c, n) == [i \in 1..n |-> c]

\* s[a:b] with 0-based a (inclusive) and b (exclusive), 0 <= a, b <= len(s)
Slice(s, a, b) == IF b <= a THEN <<>> ELSE SubSeq(s, a + 1, b)

\* sub in s
Contains(s, sub) ==
    \E i \in 0..(Len(s) - Len(sub)) : \A j \in 1..Len(sub) : s[i + j] = sub[j]

Digits == {"0", "1", "2", "3", "4", "5", "6", "7", "8", "9"}

IsDigit(c) == c \in Digits

\* \s : space, newline, tab
NL == "U+000A"

IsSpace(c) == c \in {" ", NL, "U+0009"}

\* the characters of the model's alphabet that are not \w (Python 3 str
\* patterns: \w is Unicode letters, digits and underscore, CJK included)
NonWordChars ==
    {" ", NL, "U+0009", "-", "(", ")", ",", ";", ":", ".", "*", "U+00A5",
     "U+2014", "U+3002", "U+3010", "U+3011", "U+FF08", "U+FF09", "U+FF0C",
     "U+FF1B", "U+FF1A", "U+3001", "U+FF0E"}

IsWordChar(c) == c \notin NonWordChars

Upper == <<"A", "B", "C", "D", "E", "F", "G", "H", "I", "J", "K", "L", "M",
           "N", "O", "P", "Q", "R", "S", "T", "U", "V", "W", "X", "Y", "Z">>

Lower == <<"a", "b", "c", "d", "e", "f", "g", "h", "i", "j", "k", "l", "m",
           "n", "o", "p", "q", "r", "s", "t", "u", "v", "w", "x", "y", "z">>

LowerChar(c) ==
    IF c \in Range(Upper) THEN Lower[CHOOSE i \in 1..26 : Upper[i] = c] ELSE c

\* str.lower()
StrLower(s) == [i \in 1..Len(s) |-> LowerChar(s[i])]

\* str.strip()
RECURSIVE LStrip(_)
LStrip(s) == IF s # <<>> /\ IsSpace(Head(s)) THEN LStrip(Tail(s)) ELSE s

RECURSIVE RStrip(_)
RStrip(s) ==
    IF s # <<>> /\ IsSpace(s[Len(s)]) THEN RStrip(SubSeq(s, 1, Len(s) - 1)) ELSE s

Strip(s) == RStrip(LStrip(s))

\* int(s) of a digit string
DigitVal(c) == CHOOSE n \in 0..9 : <<"0", "1", "2", "3", "4", "5", "6", "7", "8", "9">>[n + 1] = c

RECURSIVE IntOf(_)
IntOf(s) == IF s = <<>> THEN 0 ELSE 10 * IntOf(SubSeq(s, 1, Len(s) - 1)) + DigitVal(s[Len(s)])

\* str(n) of a natural number
RECURSIVE StrOf(_)
StrOf(n) ==
    IF n < 10 THEN <<(<<"0", "1", "2", "3", "4", "5", "6", "7", "8", "9">>)[n + 1]>>
    ELSE StrOf(n \div 10) \o StrOf(n % 10)

-----------------------------------------------------------------------------
(* Regular-expression machinery.  A matcher gives, for a 1-based start     *)
(* position i of text t, the position just after the match, or 0 when the  *)
(* pattern does not match at i.  re.findall / re.finditer scan left to     *)
(* right and resume at the end of each match (matches never overlap).      *)

\* length of the maximal digit run of t that starts at position i
RECURSIVE DigitRun(_, _)
DigitRun(t, i) == IF i <= Len(t) /\ IsDigit(t[i]) THEN 1 + DigitRun(t, i + 1) ELSE 0

\* length of the maximal whitespace run of t that starts at position i
RECURSIVE SpaceRun(_, _)
SpaceRun(t, i) == IF i <= Len(t) /\ IsSpace(t[i]) THEN 1 + SpaceRun(t, i + 1) ELSE 0

At(t, i, cs) == i >= 1 /\ i <= Len(t) /\ t[i] \in cs

\* m[i] is the end (exclusive) of the match at i, or 0; the spans <<i, e>> found
RECURSIVE Scan(_, _)
Scan(m, i) ==
    IF i > Len(m) THEN <<>>
    ELSE IF m[i] > 0 THEN <<<<i, m[i]>>>> \o Scan(m, m[i])
    ELSE Scan(m, i + 1)

\* \b at the gap before position p: exactly one side is a \w character
WordBoundary(t, p) ==
    (p - 1 >= 1 /\ p - 1 <= Len(t) /\ IsWordChar(t[p - 1]))
        # (p >= 1 /\ p <= Len(t) /\ IsWordChar(t[p]))

\* the substrings of t that the spans cover, in order (re.findall, no groups)
Matched(t, spans) == [k \in 1..Len(spans) |-> SubSeq(t, spans[k][1], spans[k][2] - 1)]

\* (?<!\d)1[3-9]\d{9}(?!\d)
PhoneEnd(t, i) ==
    IF /\ ~At(t, i - 1, Digits)
       /\ At(t, i, {"1"})
       /\ At(t, i + 1, {"3", "4", "5", "6", "7", "8", "9"})
       /\ \A k \in 2..10 : At(t, i + k, Digits)
       /\ ~At(t, i + 11, Digits)
    THEN i + 11 ELSE 0

\* \b\d{10,15}\b : greedy, backing off to the longest count that ends at a \b
BusinessEnd(t, i) ==
    LET run == DigitRun(t, i)
        ks == {k \in 10..15 : k <= run /\ WordBoundary(t, i + k)}
    IN  IF WordBoundary(t, i) /\ ks # {}
        THEN i + (CHOOSE k \in ks : \A j \in ks : j <= k) ELSE 0

\* ¥?\s*\d+\.?\d*\s*元  (optional yen sign, digits, unit glyph yuan)
AmountEnd(t, i) ==
    LET a == IF At(t, i, {"U+00A5"}) THEN i + 1 ELSE i
        b == a + SpaceRun(t, a)
        c == b + DigitRun(t, b)
        e == IF At(t, c, {"."}) THEN c + 1 ELSE c
        f == e + DigitRun(t, e)
        g == f + SpaceRun(t, f)
    IN  IF c > b /\ At(t, g, {"U+5143"}) THEN g + 1 ELSE 0

\* \d{4}[-年]\d{1,2}[-月]\d{1,2}[日]?  (year, month, day glyphs)
DateEnd(t, i) ==
    LET mm == DigitRun(t, i + 5)
        p  == i + 5 + mm + 1
        dd == Min(2, DigitRun(t, p))
    IN  IF /\ \A k \in 0..3 : At(t, i + k, Digits)
           /\ At(t, i + 4, {"-", "U+5E74"})
           /\ mm \in {1, 2}
           /\ At(t, i + 5 + mm, {"-", "U+6708"})
           /\ dd >= 1
        THEN IF At(t, p + dd, {"U+65E5"}) THEN p + dd + 1 ELSE p + dd
        ELSE 0

\* \d{1,2}:\d{2}(?::\d{2})?
TimeEnd(t, i) ==
    LET h == IF At(t, i, Digits) /\ At(t, i + 1, Digits) THEN 2
             ELSE IF At(t, i, Digits) THEN 1 ELSE 0
        q == i + h
    IN  IF h > 0 /\ At(t, q, {":"}) /\ At(t, q + 1, Digits) /\ At(t, q + 2, Digits)
        THEN IF At(t, q + 3, {":"}) /\ At(t, q + 4, Digits) /\ At(t, q + 5, Digits)
             THEN q + 6 ELSE q + 3
        ELSE 0

FindPhones(t) == Range(Matched(t, Scan([i \in 1..Len(t) |-> PhoneEnd(t, i)], 1)))

FindBusiness(t) == Range(Matched(t, Scan([i \in 1..Len(t) |-> BusinessEnd(t, i)], 1)))

FindAmounts(t) == Range(Matched(t, Scan([i \in 1..Len(t) |-> AmountEnd(t, i)], 1)))

FindDates(t) == Range(Matched(t, Scan([i \in 1..Len(t) |-> DateEnd(t, i)], 1)))

FindTimes(t) == Range(Matched(t, Scan([i \in 1..Len(t) |-> TimeEnd(t, i)], 1)))

-----------------------------------------------------------------------------
(* AttachmentAnalyzer: classification of a transcript *)

\* the bracketed tags of the vision model and the guide keywords
TAG_GUIDE_CLASS == <<"U+3010", "U+64CD", "U+4F5C", "U+6307", "U+5F15", "U+7C7B">>

TAG_GUIDE_UNRELATED ==
    <<"U+64CD", "U+4F5C", "U+6307", "U+5F15", "U+7C7B", "-", "U+4E0E", "U+5177",
      "U+4F53", "U+4E1A", "U+52A1", "U+6570", "U+636E", "U+65E0", "U+5173">>

TAG_GUIDE == <<"U+3010", "U+64CD", "U+4F5C", "U+6307", "U+5F15", "U+3011">>

TAG_VOUCHER == <<"U+3010", "U+4E1A", "U+52A1", "U+51ED", "U+8BC1", "U+3011">>

TAG_BILL == <<"U+3010", "U+8D26", "U+5355", "U+660E", "U+7EC6", "U+3011">>

TAG_QUERY == <<"U+3010", "U+8BB0", "U+5F55", "U+67E5", "U+8BE2", "U+3011">>

TAG_COMM == <<"U+3010", "U+6C9F", "U+901A", "U+8BB0", "U+5F55", "U+3011">>

TAG_OTHER == <<"U+3010", "U+5176", "U+4ED6", "U+3011">>

KW_ENTRY == <<"U+64CD", "U+4F5C", "U+5165", "U+53E3">>

guide_keywords ==
    << <<"U+9500", "U+6237", "U+5165", "U+53E3">>,
       KW_ENTRY,
       <<"U+77E5", "U+8BC6", "U+5E93">>,
       <<"U+64CD", "U+4F5C", "U+6307", "U+5F15">>,
       <<"U+64CD", "U+4F5C", "U+8BF4", "U+660E">>,
       <<"U+5982", "U+4F55", "U+529E", "U+7406">>,
       <<"U+529E", "U+7406", "U+6D41", "U+7A0B">>,
       <<"U+529E", "U+7406", "U+65B9", "U+5F0F">>,
       <<"U+529E", "U+7406", "U+5165", "U+53E3">>,
       <<"U+624B", "U+5385">>,
       <<"A", "P", "P", "U+622A", "U+56FE">>,
       <<"U+754C", "U+9762", "U+622A", "U+56FE">> >>

is_operation_guide(content) ==
    \/ Contains(content, TAG_GUIDE_CLASS)
    \/ Contains(content, TAG_GUIDE_UNRELATED)
    \/ Contains(content, TAG_GUIDE)
    \/ \E k \in 1..Len(guide_keywords) : Contains(StrLower(content), guide_keywords[k])

\* the (marker, type name) pairs in the dict's insertion order; first hit wins
type_mapping ==
    << <<TAG_VOUCHER, "voucher">>, <<TAG_BILL, "bill">>, <<TAG_QUERY, "query">>,
       <<TAG_COMM, "communication">>, <<TAG_GUIDE, "operation_guide">>,
       <<TAG_GUIDE_CLASS, "operation_guide">>, <<TAG_OTHER, "other">> >>

extract_content_type(content) ==
    LET hits == {k \in 1..Len(type_mapping) : Contains(content, type_mapping[k][1])}
    IN  IF hits = {} THEN "unclassified"
        ELSE type_mapping[CHOOSE k \in hits : \A j \in hits : k <= j][2]

extract_attachment_info(content) ==
    LET is_guide == is_operation_guide(content)
        ct0 == extract_content_type(content)
        content_type == IF ct0 = "unclassified"
                        THEN (IF is_guide THEN "operation_guide" ELSE "business_data")
                        ELSE ct0
    IN  [phone_numbers      |-> FindPhones(content),
         business_numbers   |-> FindBusiness(content),
         amounts            |-> FindAmounts(content),
         dates              |-> FindDates(content),
         times              |-> FindTimes(content),
         is_operation_guide |-> is_guide \/ content_type = "operation_guide",
         content_type       |-> content_type]

-----------------------------------------------------------------------------
(* AttachmentAnalyzer: the reference data, matching and the conclusion *)

EntityFields == {"phone_numbers", "business_numbers", "amounts", "dates", "times"}

\* list(set(section2_data.get(f, []) + section3_data.get(f, []))) per field
extract_document_reference(s2, s3) ==
    LET section2_data == Get(s2, "key_data", <<>>)
        section3_data == Get(s3, "key_data", <<>>)
    IN  [f \in EntityFields |->
            Range(Get(section2_data, f, <<>>) \o Get(section3_data, f, <<>>))]

\* mutant: "all matched" judged against the size of the narrative list
match_status_counts_doc(att_data, doc_data) ==
    LET matched   == {item \in att_data : item \in doc_data}
        unmatched == {item \in att_data : item \notin doc_data}
    IN  IF att_data = {} THEN [status |-> "empty"]
        ELSE IF Cardinality(matched) = Cardinality(doc_data)
        THEN [status |-> "full_match", matched |-> matched]
        ELSE IF Cardinality(matched) > 0
        THEN [status |-> "partial_match", matched |-> matched, unmatched |-> unmatched]
        ELSE [status |-> "no_match", unmatched |-> unmatched]

match_status(att_data, doc_data) ==
    LET matched   == {item \in att_data : item \in doc_data}
        unmatched == {item \in att_data : item \notin doc_data}
    IN  IF att_data = {} THEN [status |-> "empty"]
        ELSE IF Cardinality(matched) = Cardinality(att_data)
        THEN [status |-> "full_match", matched |-> matched]
        ELSE IF Cardinality(matched) > 0
        THEN [status |-> "partial_match", matched |-> matched, unmatched |-> unmatched]
        ELSE [status |-> "no_match", unmatched |-> unmatched]

\* mutant: the "exactly one number on each side" condition dropped
phone_issues_any_size(att_phones, doc_phones) ==
    IF /\ doc_phones # {} /\ att_phones # {}
       /\ ~(\E p \in att_phones : p \in doc_phones)
    THEN << [type     |-> "phone_mismatch",
             severity |-> "warning",
             data     |-> CHOOSE p \in att_phones : TRUE,
             message  |-> <<CHOOSE p \in att_phones : TRUE, CHOOSE p \in doc_phones : TRUE>>] >>
    ELSE <<>>

\* mutant: the phone mismatch raised as a critical issue
phone_issues_critical(att_phones, doc_phones) ==
    IF /\ doc_phones # {} /\ att_phones # {}
       /\ ~(\E p \in att_phones : p \in doc_phones)
       /\ Cardinality(att_phones) = 1 /\ Cardinality(doc_phones) = 1
    THEN << [type     |-> "phone_mismatch",
             severity |-> "critical",
             data     |-> CHOOSE p \in att_phones : TRUE,
             message  |-> <<CHOOSE p \in att_phones : TRUE, CHOOSE p \in doc_phones : TRUE>>] >>
    ELSE <<>>

\* the only issue the code raises: one attachment phone against one document phone
phone_issues(att_phones, doc_phones) ==
    IF /\ doc_phones # {} /\ att_phones # {}
       /\ ~(\E p \in att_phones : p \in doc_phones)
       /\ Cardinality(att_phones) = 1 /\ Cardinality(doc_phones) = 1
    THEN << [type     |-> "phone_mismatch",
             severity |-> "warning",
             data     |-> CHOOSE p \in att_phones : TRUE,
             message  |-> <<CHOOSE p \in att_phones : TRUE, CHOOSE p \in doc_phones : TRUE>>] >>
    ELSE <<>>

\* the set s as a list, in some order
RECURSIVE SetToSeq(_)
SetToSeq(S) == IF S = {} THEN <<>> ELSE LET x == CHOOSE x \in S : TRUE IN <<x>> \o SetToSeq(S \ {x})

\* mutant: a warning for every attachment amount that the narrative lacks
check_data_consistency_per_amount(att_info, doc_reference) ==
    LET extra  == SetToSeq(att_info.amounts \ doc_reference.amounts)
        issues == phone_issues(att_info.phone_numbers, doc_reference.phone_numbers)
                  \o [k \in 1..Len(extra) |->
                        [type |-> "amount_mismatch", severity |-> "warning",
                         data |-> extra[k], message |-> <<extra[k]>>]]
    IN  [total_issues    |-> Len(issues),
         critical_issues |-> 0,
         warnings        |-> Len(issues),
         issues          |-> issues,
         is_consistent   |-> TRUE]

check_data_consistency(att_info, doc_reference) ==
    LET issues == phone_issues(att_info.phone_numbers, doc_reference.phone_numbers)
        ncrit  == Len(SelectSeq(issues, LAMBDA i : i.severity = "critical"))
        nwarn  == Len(SelectSeq(issues, LAMBDA i : i.severity = "warning"))
    IN  [total_issues    |-> Len(issues),
         critical_issues |-> ncrit,
         warnings        |-> nwarn,
         issues          |-> issues,
         is_consistent   |-> ncrit = 0]

\* the data_check of an operation-guide attachment (the check is skipped)
skipped_check ==
    [is_consistent |-> TRUE, issues |-> <<>>, critical_issues |-> 0,
     warnings |-> 0, skipped |-> TRUE]

CONTEXT_CUT == 100

ref_view(ref) ==
    [reference   |-> Get(ref, "reference", <<>>),
     description |-> Get(ref, "description", <<>>),
     context     |-> Slice(Get(ref, "context", <<>>), 0,
                           Min(CONTEXT_CUT, Len(Get(ref, "context", <<>>))))]

\* mutant: the number matched by containment ("1" is found in "10")
is_substring_match(ref_number, index) == Contains(ref_number, StrOf(index))

is_exact_match(ref_number, index) == ref_number = StrOf(index)

\* the references of one section that name attachment `index`, number kept
\* alongside so that the matching itself can be inspected
matching_refs(section, index) ==
    SelectSeq(Get(section, "attachment_refs", <<>>),
              LAMBDA ref : is_exact_match(Get(ref, "number", <<>>), index))

find_attachment_references(index, s2, s3) ==
    [section2 |-> [k \in 1..Len(matching_refs(s2, index)) |-> ref_view(matching_refs(s2, index)[k])],
     section3 |-> [k \in 1..Len(matching_refs(s3, index)) |-> ref_view(matching_refs(s3, index)[k])]]

\* mutant: the warning branch tested before the critical one
verdict_warning_first(is_guide, is_consistent, has_key_content, data_check) ==
    IF is_guide THEN <<"pass", <<"guide">>>>
    ELSE IF Get(data_check, "warnings", 0) > 0
    THEN <<"warning", <<"warnings", data_check.warnings>>>>
    ELSE IF ~is_consistent THEN <<"fail", <<"inconsistent", data_check.critical_issues>>>>
    ELSE IF has_key_content THEN <<"pass", <<"consistent">>>>
    ELSE <<"pass", <<"passed">>>>

\* the if/elif chain of _generate_conclusion: <<status, message>>
verdict(is_guide, is_consistent, has_key_content, data_check) ==
    IF is_guide THEN <<"pass", <<"guide">>>>
    ELSE IF ~is_consistent THEN <<"fail", <<"inconsistent", data_check.critical_issues>>>>
    ELSE IF Get(data_check, "warnings", 0) > 0
    THEN <<"warning", <<"warnings", data_check.warnings>>>>
    ELSE IF has_key_content THEN <<"pass", <<"consistent">>>>
    ELSE <<"pass", <<"passed">>>>

\* mutant: an attachment that no section cites is at best a warning
generate_conclusion_needs_citation(att_info, references, data_check) ==
    LET is_referenced == Len(references.section2) + Len(references.section3) > 0
        is_consistent == data_check.is_consistent
        is_guide      == Get(att_info, "is_operation_guide", FALSE)
        has_key_content ==
            \/ Get(att_info, "phone_numbers", {}) # {}
            \/ Get(att_info, "business_numbers", {}) # {}
            \/ Get(att_info, "amounts", {}) # {}
            \/ Get(att_info, "dates", {}) # {}
        v == verdict(is_guide, is_consistent, has_key_content, data_check)
    IN  [status             |-> IF v[1] = "pass" /\ ~is_referenced THEN "warning" ELSE v[1],
         message            |-> v[2],
         is_referenced      |-> is_referenced,
         is_consistent      |-> is_consistent,
         has_key_content    |-> has_key_content,
         is_operation_guide |-> is_guide]

generate_conclusion(att_info, references, data_check) ==
    LET is_referenced == Len(references.section2) + Len(references.section3) > 0
        is_consistent == data_check.is_consistent
        is_guide      == Get(att_info, "is_operation_guide", FALSE)
        has_key_content ==
            \/ Get(att_info, "phone_numbers", {}) # {}
            \/ Get(att_info, "business_numbers", {}) # {}
            \/ Get(att_info, "amounts", {}) # {}
            \/ Get(att_info, "dates", {}) # {}
        v == verdict(is_guide, is_consistent, has_key_content, data_check)
    IN  [status             |-> v[1],
         message            |-> v[2],
         is_referenced      |-> is_referenced,
         is_consistent      |-> is_consistent,
         has_key_content    |-> has_key_content,
         is_operation_guide |-> is_guide]

\* mutant: the operation-guide shortcut forgotten
data_check_of_no_skip(att_info, doc_reference) ==
    check_data_consistency(att_info, doc_reference)

\* operation-guide attachments skip the consistency check
data_check_of(att_info, doc_reference) ==
    IF att_info.is_operation_guide THEN skipped_check
    ELSE check_data_consistency(att_info, doc_reference)

\* one field of key_content: what was found, how many, and the match status
field_entry(att_data, doc_data) ==
    [found |-> att_data, count |-> Cardinality(att_data),
     match_status |-> match_status(att_data, doc_data)]

analyze_single_attachment(index, ocr_result, doc_reference, s2, s3) ==
    LET filename   == Get(ocr_result, "file_name", <<"U+9644", "U+4EF6">> \o StrOf(index))
        content    == Get(ocr_result, "content", <<>>)
        att_info   == extract_attachment_info(content)
        references == find_attachment_references(index, s2, s3)
        data_check == data_check_of(att_info, doc_reference)
    IN  [index    |-> index,
         filename |-> filename,
         document_references |->
            [section2_refs |-> references.section2,
             section3_refs |-> references.section3,
             total_refs    |-> Len(references.section2) + Len(references.section3),
             is_referenced |-> Len(references.section2) + Len(references.section3) > 0],
         key_content |->
            [content_type       |-> att_info.content_type,
             is_operation_guide |-> att_info.is_operation_guide,
             phone_numbers    |-> field_entry(att_info.phone_numbers, doc_reference.phone_numbers),
             business_numbers |-> field_entry(att_info.business_numbers, doc_reference.business_numbers),
             amounts          |-> field_entry(att_info.amounts, doc_reference.amounts),
             dates            |-> field_entry(att_info.dates, doc_reference.dates),
             times            |-> field_entry(att_info.times, doc_reference.times)],
         consistency_check |-> data_check,
         conclusion |-> generate_conclusion(att_info, references, data_check)]

\* variant: entries numbered from 0, as a bare enumerate would number them
generate_attachment_checklist_zero_based(ocr, s2, s3) ==
    LET doc_reference == extract_document_reference(s2, s3)
    IN  [total_attachments |-> Len(ocr),
         attachments |-> [idx \in 1..Len(ocr) |->
                            analyze_single_attachment(idx - 1, ocr[idx], doc_reference, s2, s3)]]

generate_attachment_checklist(ocr, s2, s3) ==
    LET doc_reference == extract_document_reference(s2, s3)
    IN  [total_attachments |-> Len(ocr),
         attachments |-> [idx \in 1..Len(ocr) |->
                            analyze_single_attachment(idx, ocr[idx], doc_reference, s2, s3)]]

-----------------------------------------------------------------------------
(* ComplaintDocumentParser._extract_attachment_refs *)

ATT == <<"U+9644", "U+4EF6">>

SEE_ATT == <<"U+89C1", "U+9644", "U+4EF6">>

OpenParens == {"U+FF08", "("}

CloseParens == {"U+FF09", ")"}

Dashes == {"-", "U+2014"}

\* the characters that end a pattern-3 description: [^\n,，。；;）)]
DescStops == {NL, ",", "U+FF0C", "U+3002", "U+FF1B", ";", "U+FF09", ")"}

CTX_SEE == 50

CTX_DESC == 30

DESC_MIN == 5

DESC_MAX == 50

HasAt(t, i, w) == i >= 1 /\ i + Len(w) - 1 <= Len(t) /\ SubSeq(t, i, i + Len(w) - 1) = w

\* length of the maximal run from position i of characters outside `stops`
RECURSIVE RunOutside(_, _, _)
RunOutside(t, i, stops) ==
    IF i <= Len(t) /\ t[i] \notin stops THEN 1 + RunOutside(t, i + 1, stops) ELSE 0

\* pattern1 = 见附件(\d+)
Pattern1End(t, i) ==
    IF HasAt(t, i, SEE_ATT) /\ DigitRun(t, i + 3) >= 1
    THEN i + 3 + DigitRun(t, i + 3) ELSE 0

\* pattern2 = [（(]附件(\d+)[-—]([^）)]+)[）)]
Pattern2End(t, i) ==
    LET d == DigitRun(t, i + 3)
        r == RunOutside(t, i + 4 + d, CloseParens)
    IN  IF /\ At(t, i, OpenParens) /\ HasAt(t, i + 1, ATT) /\ d >= 1
           /\ At(t, i + 3 + d, Dashes) /\ r >= 1
           /\ At(t, i + 4 + d + r, CloseParens)
        THEN i + 4 + d + r + 1 ELSE 0

\* pattern3 = (?<![（(])附件(\d+)[-—]([^\n,，。；;）)]{5,50})
Pattern3End(t, i) ==
    LET d == DigitRun(t, i + 2)
        r == Min(DESC_MAX, RunOutside(t, i + 3 + d, DescStops))
    IN  IF /\ ~At(t, i - 1, OpenParens) /\ HasAt(t, i, ATT) /\ d >= 1
           /\ At(t, i + 2 + d, Dashes) /\ r >= DESC_MIN
        THEN i + 3 + d + r ELSE 0

\* section_content[max(0, start - w):min(len, end + w)].replace('\n', ' ').strip()
\* for a match spanning 1-based positions span[1] .. span[2] - 1
ContextOf(t, span, w) ==
    LET cut == Slice(t, Max(0, span[1] - 1 - w), Min(Len(t), span[2] - 1 + w))
    IN  Strip([k \in 1..Len(cut) |-> IF cut[k] = NL THEN " " ELSE cut[k]])

\* the reference pattern 1 appends for a match
SeeRef(t, span) ==
    LET att_num == SubSeq(t, span[1] + 3, span[2] - 1)
    IN  [number |-> att_num, reference |-> SEE_ATT \o att_num,
         context |-> ContextOf(t, span, CTX_SEE), description |-> <<>>]

\* patterns 2 and 3: fill the empty description of the first reference with
\* this number, leave a described one alone, append when there is none
AddDescribed(rs, t, span, att_num, description) ==
    LET hits == {j \in 1..Len(rs) : rs[j].number = att_num}
        j0   == CHOOSE j \in hits : \A k \in hits : j <= k
    IN  IF hits # {}
        THEN IF rs[j0].description = <<>>
             THEN [rs EXCEPT ![j0].description = description]
             ELSE rs
        ELSE Append(rs, [number |-> att_num, reference |-> ATT \o att_num,
                         context |-> ContextOf(t, span, CTX_DESC),
                         description |-> description])

\* group(1) and group(2).strip() of a pattern-2 match (off = 1) or a
\* pattern-3 match (off = 0); pattern 2's span ends with the closing paren
NumOf(t, span, off) == SubSeq(t, span[1] + off + 2, span[1] + off + 1 + DigitRun(t, span[1] + off + 2))

DescOf(t, span, off) ==
    Strip(SubSeq(t, span[1] + off + 3 + DigitRun(t, span[1] + off + 2), span[2] - 1 - off))

RECURSIVE FoldDescribed(_, _, _, _, _)
FoldDescribed(rs, t, spans, k, off) ==
    IF k > Len(spans) THEN rs
    ELSE FoldDescribed(
            AddDescribed(rs, t, spans[k], NumOf(t, spans[k], off), DescOf(t, spans[k], off)),
            t, spans, k + 1, off)

\* list.sort(key=lambda x: int(x['number'])): stable, ascending
RECURSIVE SortByNumber(_)
SortByNumber(rs) ==
    IF rs = <<>> THEN <<>>
    ELSE LET init == SortByNumber(SubSeq(rs, 1, Len(rs) - 1))
             x    == rs[Len(rs)]
             le   == {j \in 1..Len(init) : IntOf(init[j].number) <= IntOf(x.number)}
             pos  == IF le = {} THEN 0 ELSE CHOOSE j \in le : \A k \in le : k <= j
         IN  SubSeq(init, 1, pos) \o <<x>> \o SubSeq(init, pos + 1, Len(init))

\* the de-duplication loop over the sorted list (dict keyed by number string)
RECURSIVE Unique(_, _, _)
Unique(acc, rs, k) ==
    IF k > Len(rs) THEN acc
    ELSE LET hits == {j \in 1..Len(acc) : acc[j].number = rs[k].number}
             j0   == CHOOSE j \in hits : TRUE
         IN  Unique(IF hits = {} THEN Append(acc, rs[k])
                    ELSE IF Len(rs[k].description) > Len(acc[j0].description)
                    THEN [acc EXCEPT ![j0].description = rs[k].description]
                    ELSE acc,
                    rs, k + 1)

Spans1(t) == Scan([i \in 1..Len(t) |-> Pattern1End(t, i)], 1)

Spans2(t) == Scan([i \in 1..Len(t) |-> Pattern2End(t, i)], 1)

Spans3(t) == Scan([i \in 1..Len(t) |-> Pattern3End(t, i)], 1)

\* the list `refs` just before the sort
collected_refs(t) ==
    LET r1 == [k \in 1..Len(Spans1(t)) |-> SeeRef(t, Spans1(t)[k])]
        r2 == FoldDescribed(r1, t, Spans2(t), 1, 1)
    IN  FoldDescribed(r2, t, Spans3(t), 1, 0)

\* digit strings compared as text: "10" < "2"
RECURSIVE StrLeq(_, _)
StrLeq(a, b) ==
    IF a = <<>> THEN TRUE
    ELSE IF b = <<>> THEN FALSE
    ELSE IF Head(a) = Head(b) THEN StrLeq(Tail(a), Tail(b))
    ELSE DigitVal(Head(a)) < DigitVal(Head(b))

\* mutant: sort(key=lambda x: x['number']), the numbers compared as strings
RECURSIVE sort_refs_as_text(_)
sort_refs_as_text(rs) ==
    IF rs = <<>> THEN <<>>
    ELSE LET init == sort_refs_as_text(SubSeq(rs, 1, Len(rs) - 1))
             x    == rs[Len(rs)]
             le   == {j \in 1..Len(init) : StrLeq(init[j].number, x.number)}
             pos  == IF le = {} THEN 0 ELSE CHOOSE j \in le : \A k \in le : k <= j
         IN  SubSeq(init, 1, pos) \o <<x>> \o SubSeq(init, pos + 1, Len(init))

sort_refs(rs) == SortByNumber(rs)

\* mutant: the de-duplication loop left out
unique_refs_kept_all(rs) == rs

unique_refs(rs) == Unique(<<>>, rs, 1)

extract_attachment_refs(section_content) ==
    IF section_content = <<>> THEN <<>>
    ELSE unique_refs(sort_refs(collected_refs(section_content)))

-----------------------------------------------------------------------------
(* ComplaintDocumentParser._split_sections and parse_document *)

\* [\s、.．]  the separators allowed between a heading's numeral and label
HeadingSeps == {" ", NL, "U+0009", "U+3001", ".", "U+FF0E"}

\* section_patterns: the numerals ([一1], [二2], ...) and the label of each key
section_patterns ==
    [section1 |-> [numerals |-> {"U+4E00", "1"},
                   label |-> <<"U+7528", "U+6237", "U+7533", "U+8BC9", "U+539F", "U+6587">>],
     section2 |-> [numerals |-> {"U+4E8C", "2"},
                   label |-> <<"U+7533", "U+8BC9", "U+6838", "U+67E5", "U+60C5", "U+51B5">>],
     section3 |-> [numerals |-> {"U+4E09", "3"},
                   label |-> <<"U+7533", "U+8BC9", "U+540E", "U+5904", "U+7406", "U+60C5", "U+51B5">>],
     section4 |-> [numerals |-> {"U+56DB", "4"},
                   label |-> ATT]]

SectionKeys == {"section1", "section2", "section3", "section4"}

\* length of the maximal run from position i of characters in `cs`
RECURSIVE RunInside(_, _, _)
RunInside(t, i, cs) ==
    IF i <= Len(t) /\ t[i] \in cs THEN 1 + RunInside(t, i + 1, cs) ELSE 0

\* whether the heading pattern of `key` matches at 1-based position i (the
\* optional suffix of the section-4 pattern does not move the match start)
HeadingAt(t, i, key) ==
    /\ At(t, i, section_patterns[key].numerals)
    /\ HasAt(t, i + 1 + RunInside(t, i + 1, HeadingSeps), section_patterns[key].label)

\* re.search(pattern, content).start() as a 0-based offset, or -1 for no match
HeadingStart(t, key) ==
    LET hits == {i \in 1..Len(t) : HeadingAt(t, i, key)}
    IN  IF hits = {} THEN -1 ELSE (CHOOSE i \in hits : \A j \in hits : i <= j) - 1

\* positions: the keys found, with their start offsets
positions(t) == [key \in {k \in SectionKeys : HeadingStart(t, k) >= 0} |-> HeadingStart(t, key)]

\* mutant: a section ends where the next section by label begins
SectionEndByLabel(t, start) ==
    LET key  == CHOOSE k \in DOMAIN positions(t) : positions(t)[k] = start
        next == CASE key = "section1" -> "section2"
                  [] key = "section2" -> "section3"
                  [] key = "section3" -> "section4"
                  [] OTHER -> "none"
    IN  IF next \in DOMAIN positions(t) /\ positions(t)[next] > start
        THEN positions(t)[next] ELSE Len(t)

\* the end offset of the section that starts at `start`: the next start, or len
SectionEnd(t, start) ==
    LET later == {positions(t)[k] : k \in DOMAIN positions(t)} \cap (start + 1 .. Len(t))
    IN  IF later = {} THEN Len(t) ELSE CHOOSE e \in later : \A x \in later : e <= x

\* mutant: every section key is returned, an absent one as the empty text
split_sections_all_keys(content) ==
    [key \in SectionKeys |->
        IF key \in DOMAIN positions(content)
        THEN Strip(Slice(content, positions(content)[key],
                         SectionEnd(content, positions(content)[key])))
        ELSE <<>>]

split_sections(content) ==
    [key \in DOMAIN positions(content) |->
        Strip(Slice(content, positions(content)[key], SectionEnd(content, positions(content)[key])))]

parse_document(doc) ==
    LET content  == Get(doc, "content", <<>>)
        sections == split_sections(content)
    IN  [file_name |-> Get(doc, "file_name", <<>>),
         sections  |->
            [section1_original_complaint |-> [content |-> Get(sections, "section1", <<>>)],
             section2_investigation |->
                [content |-> Get(sections, "section2", <<>>),
                 attachment_refs |-> extract_attachment_refs(Get(sections, "section2", <<>>))],
             section3_handling |->
                [content |-> Get(sections, "section3", <<>>),
                 attachment_refs |-> extract_attachment_refs(Get(sections, "section3", <<>>))],
             section4_attachments |-> [content |-> Get(sections, "section4", <<>>)]]]

-----------------------------------------------------------------------------
(* Inputs of the analyzer: attachment transcripts and narrative sections *)

MaxAttachments == 2

PHONE_A == <<"1", "3", "9">> \o Rep("0", 8)

PHONE_B == <<"1", "3", "9">> \o Rep("1", 8)

PHONE_C == <<"1", "3", "8">> \o Rep("2", 8)

AMT_100 == <<"1", "0", "0", "U+5143">>

AMT_200 == <<"2", "0", "0", "U+5143">>

DATE_1 == <<"2", "0", "2", "4", "-", "0", "1", "-", "0", "2">>

\* a b c joined by single spaces, empty parts dropped
JoinSp(a, b) == IF a = <<>> THEN b ELSE IF b = <<>> THEN a ELSE a \o <<" ">> \o b

PhoneParts == {<<>>, PHONE_A, PHONE_B, JoinSp(PHONE_A, PHONE_B)}

AmountParts == {<<>>, AMT_100, AMT_200, JoinSp(AMT_100, AMT_200)}

DateParts == {<<>>, DATE_1}

\* no tag, the operation-guide tag, a business-voucher tag, a guide keyword,
\* a billing-detail tag followed by a guide keyword
TagParts == {<<>>, TAG_GUIDE, TAG_VOUCHER, KW_ENTRY, TAG_BILL \o KW_ENTRY}

Transcripts ==
    {tg \o JoinSp(JoinSp(ph, am), dt) :
        tg \in TagParts, ph \in PhoneParts, am \in AmountParts, dt \in DateParts}

\* the transcripts of the second and later attachments of a run
LaterTranscripts == {TAG_GUIDE \o PHONE_B, JoinSp(PHONE_B, AMT_200)}

FileName(k) == StrOf(k) \o <<"-", "x", ".", "j", "p", "g">>

AttachmentLists ==
    UNION {{[k \in 1..n |-> [file_name |-> FileName(k),
                             content   |-> IF k = 1 THEN first ELSE later[k]]] :
                first \in Transcripts, later \in [1..n -> LaterTranscripts]} :
           n \in 1..MaxAttachments}

\* a reference as _extract_attachment_refs builds it
RefTo(num) == [number |-> num, reference |-> SEE_ATT \o num,
               context |-> SEE_ATT \o num, description |-> <<>>]

\* section 2 as a caller may hand it over: with extracted key_data
Section2Inputs ==
    {[content |-> <<>>, attachment_refs |-> <<>>,
      key_data |-> [phone_numbers |-> ph, amounts |-> ad[1], dates |-> ad[2]]] :
        ph \in {<<>>, <<PHONE_A>>, <<PHONE_C>>, <<PHONE_A, PHONE_C>>},
        ad \in {<< <<>>, <<>> >>, << <<AMT_100>>, <<DATE_1>> >>}}

\* section 3: as parse_document returns it (no key_data), or with key_data
Section3Inputs ==
    {[content |-> <<>>, attachment_refs |-> <<>>],
     [content |-> <<>>, attachment_refs |-> <<RefTo(<<"1">>), RefTo(<<"1", "0">>)>>,
      key_data |-> [phone_numbers |-> <<PHONE_C>>, amounts |-> <<AMT_100>>]]}

-----------------------------------------------------------------------------
(* The analyzer called on its own *)

Idle == <<>>

InitAnalyzer ==
    /\ pc = "parsed"
    /\ doc_result = Idle
    /\ arg = Idle
    /\ ret = Idle
    /\ section2 \in Section2Inputs
    /\ section3 \in Section3Inputs
    /\ ocr_results \in AttachmentLists
    /\ checklist = Idle

\* ComplaintReviewer.review_complaint_document, step 3.2
GenerateChecklist ==
    /\ pc = "parsed"
    /\ checklist' = generate_attachment_checklist(ocr_results, section2, section3)
    /\ pc' = "done"
    /\ UNCHANGED <<doc_result, section2, section3, ocr_results, arg, ret>>

NextAnalyzer == GenerateChecklist

Spec == InitAnalyzer /\ [][NextAnalyzer]_vars

-----------------------------------------------------------------------------
(* Claims about the analyzer, checked under Spec *)

Entries == IF pc = "done" THEN Range(checklist.attachments) ELSE {}

\* the narrative values of field f: every value of the two sections' key_data
NarrativeSet(f) ==
    Range(Get(Get(section2, "key_data", <<>>), f, <<>>))
        \cup Range(Get(Get(section3, "key_data", <<>>), f, <<>>))

FieldOf(e, f) == e.key_content[f]

IssuesOfType(e, ty) == SelectSeq(e.consistency_check.issues, LAMBDA i : i.type = ty)

\* C1: for every field of every checklist entry, with A the values found in
\* the attachment and N the narrative values, the match status is one of the
\* four statuses, and it is 'empty' iff A is empty, 'full_match' iff A is
\* non-empty and inside N, 'partial_match' iff some but not all of A is in N,
\* 'no_match' iff A is non-empty and disjoint from N.
C1_MatchStatusExact ==
    \A e \in Entries : \A f \in EntityFields :
        LET A  == FieldOf(e, f).found
            N  == NarrativeSet(f)
            st == FieldOf(e, f).match_status.status
        IN  /\ st \in {"empty", "full_match", "partial_match", "no_match"}
            /\ (st = "empty") <=> (A = {})
            /\ (st = "full_match") <=> (A # {} /\ A \subseteq N)
            /\ (st = "partial_match") <=> (A \cap N # {} /\ ~(A \subseteq N))
            /\ (st = "no_match") <=> (A # {} /\ A \cap N = {})

\* an entry showing the four statuses: some of its phones in the narrative,
\* none of its amounts, all of its dates, and no time at all
C1_Witness ==
    \E e \in Entries :
        /\ FieldOf(e, "phone_numbers").match_status.status = "partial_match"
        /\ FieldOf(e, "amounts").match_status.status = "no_match"
        /\ FieldOf(e, "dates").match_status.status = "full_match"
        /\ FieldOf(e, "times").match_status.status = "empty"

\* C2: for every entry whose consistency check ran, a phone_mismatch issue is
\* raised iff the attachment and the narrative hold exactly one phone number
\* each and the two differ; then there is exactly one such issue, a warning,
\* whose data is the attachment's number.
C2_PhoneMismatchOnlySingletons ==
    \A e \in Entries :
        ~e.key_content.is_operation_guide =>
            LET A  == FieldOf(e, "phone_numbers").found
                N  == NarrativeSet("phone_numbers")
                pm == IssuesOfType(e, "phone_mismatch")
            IN  /\ (Len(pm) > 0) <=> (Cardinality(A) = 1 /\ Cardinality(N) = 1 /\ A # N)
                /\ Len(pm) > 0 =>
                      /\ Len(pm) = 1
                      /\ pm[1].severity = "warning"
                      /\ pm[1].data \in A

\* one entry with a phone_mismatch issue, and one whose two numbers are both
\* absent from the narrative without any issue
C2_Witness ==
    /\ \E e \in Entries : Len(IssuesOfType(e, "phone_mismatch")) = 1
    /\ \E e \in Entries :
          /\ ~e.key_content.is_operation_guide
          /\ Cardinality(FieldOf(e, "phone_numbers").found) = 2
          /\ FieldOf(e, "phone_numbers").match_status.status = "no_match"
          /\ e.consistency_check.issues = <<>>

\* C3 as claimed: the check of a non-guide entry holds one amount warning per
\* attachment amount missing from the narrative, and one date warning per such
\* date.
C3_WarningPerMissingValue ==
    \A e \in Entries :
        ~e.key_content.is_operation_guide =>
            /\ Len(IssuesOfType(e, "amount_mismatch"))
                 = Cardinality(FieldOf(e, "amounts").found \ NarrativeSet("amounts"))
            /\ Len(IssuesOfType(e, "date_mismatch"))
                 = Cardinality(FieldOf(e, "dates").found \ NarrativeSet("dates"))
            /\ \A k \in 1..Len(e.consistency_check.issues) :
                  e.consistency_check.issues[k].severity = "warning"

\* C3 as amended: amounts and dates missing from the narrative show in the
\* field's match status only; the check raises no issue for them (every issue
\* is a phone_mismatch warning).
C3_NoAmountOrDateIssue ==
    \A e \in Entries :
        ~e.key_content.is_operation_guide =>
            /\ \A k \in 1..Len(e.consistency_check.issues) :
                  /\ e.consistency_check.issues[k].type = "phone_mismatch"
                  /\ e.consistency_check.issues[k].severity = "warning"
            /\ \A f \in {"amounts", "dates"} :
                  (FieldOf(e, f).found \ NarrativeSet(f) # {}) =>
                      FieldOf(e, f).match_status.status \in {"partial_match", "no_match"}

\* narrative amount 100 yuan, attachment amounts 100 yuan and another one:
\* partial match, and the check ran
C3_Witness ==
    \E e \in Entries :
        /\ ~e.key_content.is_operation_guide
        /\ NarrativeSet("amounts") = {AMT_100}
        /\ AMT_100 \in FieldOf(e, "amounts").found
        /\ Cardinality(FieldOf(e, "amounts").found) = 2
        /\ FieldOf(e, "amounts").match_status.status = "partial_match"
        /\ FieldOf(e, "dates").match_status.status = "no_match"

\* C4: an entry classified as an operation guide has a skipped consistency
\* check with no issue, no warning and no critical issue, and concludes
\* 'pass', whatever its transcript and the narrative hold.
C4_GuideSkipsCheck ==
    \A e \in Entries :
        (e.key_content.is_operation_guide \/ e.key_content.content_type = "operation_guide") =>
            /\ e.consistency_check.issues = <<>>
            /\ e.consistency_check.warnings = 0
            /\ e.consistency_check.critical_issues = 0
            /\ Get(e.consistency_check, "skipped", FALSE) = TRUE
            /\ e.conclusion.status = "pass"

\* a guide whose single phone number differs from the narrative's single one
\* and whose amounts are not in the narrative either
C4_Witness ==
    \E e \in Entries :
        /\ e.key_content.content_type = "operation_guide"
        /\ Cardinality(FieldOf(e, "phone_numbers").found) = 1
        /\ Cardinality(NarrativeSet("phone_numbers")) = 1
        /\ FieldOf(e, "phone_numbers").match_status.status = "no_match"
        /\ FieldOf(e, "amounts").match_status.status = "no_match"

-----------------------------------------------------------------------------
(* _generate_conclusion called on its own, over every well-formed data_check *)

MaxIssues == 2

\* att_info as far as _generate_conclusion reads it
ConclusionAttInfos ==
    [is_operation_guide : BOOLEAN,
     phone_numbers      : {{}, {PHONE_A}},
     business_numbers   : {{}},
     amounts            : {{}, {AMT_100}},
     dates              : {{}, {DATE_1}}]

\* data_check records as _check_data_consistency shapes them: is_consistent
\* is "no critical issue"
ConclusionDataChecks ==
    {[critical_issues |-> c, warnings |-> w, is_consistent |-> (c = 0)] :
        c \in 0..MaxIssues, w \in 0..MaxIssues}

ConclusionReferences ==
    {[section2 |-> <<>>, section3 |-> <<>>],
     [section2 |-> <<ref_view(RefTo(<<"1">>))>>, section3 |-> <<>>],
     [section2 |-> <<>>, section3 |-> <<ref_view(RefTo(<<"1">>))>>]}

InitConclusion ==
    /\ pc = "conclusion_call"
    /\ doc_result = Idle /\ section2 = Idle /\ section3 = Idle
    /\ ocr_results = Idle /\ checklist = Idle
    /\ arg \in [att_info : ConclusionAttInfos, references : ConclusionReferences,
                data_check : ConclusionDataChecks]
    /\ ret = Idle

CallGenerateConclusion ==
    /\ pc = "conclusion_call"
    /\ ret' = generate_conclusion(arg.att_info, arg.references, arg.data_check)
    /\ pc' = "conclusion_done"
    /\ UNCHANGED <<doc_result, section2, section3, ocr_results, checklist, arg>>

NextConclusion == CallGenerateConclusion

SpecConclusion == InitConclusion /\ [][NextConclusion]_vars

\* C5: the status follows the fixed priority: operation guide gives 'pass';
\* else a critical issue gives 'fail'; else a warning gives 'warning'; else
\* 'pass', with or without extracted data.
C5_ConclusionPriority ==
    pc = "conclusion_done" =>
        ret.status =
            IF arg.att_info.is_operation_guide THEN "pass"
            ELSE IF arg.data_check.critical_issues > 0 THEN "fail"
            ELSE IF arg.data_check.warnings > 0 THEN "warning"
            ELSE "pass"

\* a non-guide entry with critical issues and warnings, concluded 'fail'
C5_Witness ==
    /\ pc = "conclusion_done"
    /\ ~arg.att_info.is_operation_guide
    /\ arg.data_check.critical_issues > 0
    /\ arg.data_check.warnings > 0
    /\ ret.status = "fail"

\* C21: the conclusion returned for any references argument is the one
\* returned for no references at all, except for the is_referenced flag,
\* which tells whether section 2 or 3 holds a reference.
C21_CitationNeverAffectsConclusion ==
    pc = "conclusion_done" =>
        LET uncited == generate_conclusion(arg.att_info,
                                           [section2 |-> <<>>, section3 |-> <<>>],
                                           arg.data_check)
        IN  /\ ret.status = uncited.status /\ ret.message = uncited.message
            /\ ret = [uncited EXCEPT !.is_referenced =
                          arg.references.section2 # <<>> \/ arg.references.section3 # <<>>]

\* an attachment with data and no issue that only section 3 cites
C21_Witness ==
    /\ pc = "conclusion_done"
    /\ arg.references.section3 # <<>>
    /\ ret.is_referenced
    /\ ret.status = "pass" /\ ret.has_key_content /\ ~ret.is_operation_guide

-----------------------------------------------------------------------------
(* _extract_attachment_refs called on its own: section texts made of        *)
(* citations in the three forms, for attachments 1, 2, 02 and 10            *)

MaxCitations == 3

PadLen == 31

\* 见附件2, 见附件10, 见附件02
SEE_2 == SEE_ATT \o <<"2">>

SEE_10 == SEE_ATT \o <<"1", "0">>

SEE_02 == SEE_ATT \o <<"0", "2">>

\* （附件2-ab） and （附件2-abcdefg）: parenthesized, short and long description
PAREN_2_SHORT == <<"U+FF08">> \o ATT \o <<"2", "-", "a", "b", "U+FF09">>

PAREN_2_LONG == <<"U+FF08">> \o ATT \o <<"2", "-", "a", "b", "c", "d", "e", "f", "g", "U+FF09">>

\* 附件2-hijklmn， : bare, description ended by a comma
BARE_2 == ATT \o <<"2", "-", "h", "i", "j", "k", "l", "m", "n", "U+FF0C">>

\* 附件10—xy。 : bare, description shorter than DESC_MIN
BARE_10_SHORT == ATT \o <<"1", "0", "U+2014", "x", "y", "U+3002">>

\* 附件1-pqrstu : bare, description not ended (runs into what follows)
BARE_1_OPEN == ATT \o <<"1", "-", "p", "q", "r", "s", "t", "u">>

\* a sentence of PadLen characters that cites nothing
PAD == Rep("U+5B57", PadLen - 1) \o <<"U+3002">>

CitationForms ==
    {SEE_2, SEE_10, SEE_02, PAREN_2_SHORT, PAREN_2_LONG, BARE_2, BARE_10_SHORT,
     BARE_1_OPEN, PAD}

RECURSIVE Concat(_)
Concat(ss) == IF ss = <<>> THEN <<>> ELSE Head(ss) \o Concat(Tail(ss))

SectionTexts ==
    UNION {{Concat(fs) : fs \in [1..n -> CitationForms]} : n \in 0..MaxCitations}

InitRefs ==
    /\ pc = "refs_call"
    /\ doc_result = Idle /\ section2 = Idle /\ section3 = Idle
    /\ ocr_results = Idle /\ checklist = Idle
    /\ arg \in SectionTexts
    /\ ret = Idle

CallExtractRefs ==
    /\ pc = "refs_call"
    /\ ret' = extract_attachment_refs(arg)
    /\ pc' = "refs_done"
    /\ UNCHANGED <<doc_result, section2, section3, ocr_results, checklist, arg>>

NextRefs == CallExtractRefs

SpecRefs == InitRefs /\ [][NextRefs]_vars

\* the citations of attachment `num` that patterns 1, 2 and 3 find in text t
SeeSpans(t, num) == {sp \in Range(Spans1(t)) : SubSeq(t, sp[1] + 3, sp[2] - 1) = num}

ParenSpans(t, num) == {sp \in Range(Spans2(t)) : NumOf(t, sp, 1) = num}

BareSpans(t, num) == {sp \in Range(Spans3(t)) : NumOf(t, sp, 0) = num}

\* the non-empty descriptions that the parenthesized and bare citations of
\* attachment `num` carry
CandidateDescriptions(t, num) ==
    ({DescOf(t, sp, 1) : sp \in ParenSpans(t, num)}
        \cup {DescOf(t, sp, 0) : sp \in BareSpans(t, num)}) \ {<<>>}

\* the context of the first reference collected for attachment `num`
FirstContext(t, num) ==
    LET rs   == collected_refs(t)
        hits == {j \in 1..Len(rs) : rs[j].number = num}
    IN  rs[CHOOSE j \in hits : \A k \in hits : j <= k].context

\* C8: the returned list holds at most one reference per attachment number,
\* however often and in whatever forms the number is cited.
C8_OneRefPerNumber ==
    pc = "refs_done" =>
        \A i, j \in 1..Len(ret) : i # j => ret[i].number # ret[j].number

\* attachment 2 cited at least three times, the bare "see" form twice and a
\* description form too, and one reference returned for it
C8_Witness ==
    /\ pc = "refs_done"
    /\ Cardinality(SeeSpans(arg, <<"2">>)) >= 2
    /\ ParenSpans(arg, <<"2">>) \cup BareSpans(arg, <<"2">>) # {}
    /\ Cardinality({k \in 1..Len(ret) : ret[k].number = <<"2">>}) = 1

\* C9 as claimed: the reference kept for a number carries the longest
\* non-empty description among the citations of that number, and the context
\* of the first one.
C9_LongestDescriptionKept ==
    pc = "refs_done" =>
        \A k \in 1..Len(ret) :
            LET cands == CandidateDescriptions(arg, ret[k].number)
            IN  /\ cands # {} =>
                      /\ ret[k].description \in cands
                      /\ \A d \in cands : Len(d) <= Len(ret[k].description)
                /\ ret[k].context = FirstContext(arg, ret[k].number)

\* C10 as claimed: the returned list is strictly ascending by the integer
\* value of the attachment number.
C10_StrictlyAscending ==
    pc = "refs_done" =>
        \A i, j \in 1..Len(ret) :
            i < j => IntOf(ret[i].number) < IntOf(ret[j].number)

\* C10 as amended: the returned list is ascending by the integer value of the
\* attachment number (2 before 10); two neighbours have the same value only
\* when their numbers are spelt differently (2 and 02).
C10_AscendingByValue ==
    pc = "refs_done" =>
        \A i, j \in 1..Len(ret) :
            i < j =>
                /\ IntOf(ret[i].number) <= IntOf(ret[j].number)
                /\ IntOf(ret[i].number) = IntOf(ret[j].number) =>
                      ret[i].number # ret[j].number

\* attachment 10 is cited before attachment 2 in the text, and both are returned
C10_Witness ==
    /\ pc = "refs_done"
    /\ \E i, j \in 1..Len(collected_refs(arg)) :
          /\ i < j
          /\ collected_refs(arg)[i].number = <<"1", "0">>
          /\ collected_refs(arg)[j].number = <<"2">>
    /\ Len(ret) >= 2
    /\ ret[1].number = <<"2">>

-----------------------------------------------------------------------------
(* The pipeline: the Word text is parsed into sections, then the attachment  *)
(* checklist is built from the sections (web_app.review_document_stream,    *)
(* ComplaintReviewer.review_complaint_document)                             *)

MaxPipelineAttachments == 11

\* 二、申诉核查情况 and 三、申诉后处理情况
HEADING_2 == <<"U+4E8C", "U+3001">> \o section_patterns.section2.label

HEADING_3 == <<"U+4E09", "U+3001">> \o section_patterns.section3.label

COMMA == <<"U+FF0C">>

SEE_1 == SEE_ATT \o <<"1">>

SEE_11 == SEE_ATT \o <<"1", "1">>

PAREN_1 == <<"U+FF08">> \o ATT \o <<"1", "-", "a", "b", "c", "d", "e", "f", "g", "U+FF09">>

\* what the investigation section cites
Citations2 ==
    {<<>>, SEE_1 \o COMMA, SEE_10 \o COMMA, SEE_1 \o COMMA \o SEE_10 \o COMMA,
     SEE_11 \o COMMA \o SEE_1 \o COMMA, PAREN_1 \o SEE_11 \o COMMA}

\* the business data the investigation section states
Values2 == {<<>>, PHONE_A, AMT_100 \o COMMA \o DATE_1}

Bodies3 == {<<>>, SEE_10, PHONE_C}

Documents ==
    {[file_name |-> <<"d">>,
      content |-> HEADING_2 \o <<NL>> \o c2 \o v2 \o <<NL>> \o HEADING_3 \o <<NL>> \o b3] :
        c2 \in Citations2, v2 \in Values2, b3 \in Bodies3}

PipelineTranscripts == {JoinSp(PHONE_A, AMT_100), TAG_GUIDE \o PHONE_B}

PipelineAttachments ==
    {[k \in 1..n |-> [file_name |-> FileName(k), content |-> c]] :
        n \in 1..MaxPipelineAttachments, c \in PipelineTranscripts}

InitPipeline ==
    /\ pc = "input"
    /\ doc_result \in Documents
    /\ ocr_results \in PipelineAttachments
    /\ section2 = Idle /\ section3 = Idle /\ checklist = Idle
    /\ arg = Idle /\ ret = Idle

\* complaint_parser.parse_document(doc_result); the reviewer then reads
\* sections['section2_investigation'] and sections['section3_handling']
ParseDocument ==
    /\ pc = "input"
    /\ section2' = parse_document(doc_result).sections.section2_investigation
    /\ section3' = parse_document(doc_result).sections.section3_handling
    /\ pc' = "parsed"
    /\ UNCHANGED <<doc_result, ocr_results, checklist, arg, ret>>

NextPipeline == ParseDocument \/ GenerateChecklist

SpecPipeline == InitPipeline /\ [][NextPipeline]_vars

\* the values of a field that occur literally in a section's text
ValuesIn(text, f) ==
    CASE f = "phone_numbers" -> FindPhones(text)
      [] f = "amounts" -> FindAmounts(text)
      [] f = "dates" -> FindDates(text)

\* C6 as claimed: after parse_document and generate_attachment_checklist, the
\* reference set of phone numbers, amounts and dates that the attachments were
\* matched against holds every such value of the text of sections 2 and 3.
C6_ReferenceHoldsSectionValues ==
    pc = "done" =>
        \A f \in {"phone_numbers", "amounts", "dates"} :
            (ValuesIn(section2.content, f) \cup ValuesIn(section3.content, f))
                \subseteq extract_document_reference(section2, section3)[f]

\* C7: a reference is attached to checklist entry k only if its captured
\* number is str(k): the entry's references are exactly the section's
\* references with that number, so entry 1 holds none for 10 or 11 and entry
\* 10 holds none for 1.
C7_ExactNumberMatching ==
    pc = "done" =>
        \A k \in 1..Len(checklist.attachments) :
            LET dr == checklist.attachments[k].document_references
                own(section) ==
                    SelectSeq(section.attachment_refs, LAMBDA r : r.number = StrOf(k))
            IN  /\ \A r \in Range(dr.section2_refs) \cup Range(dr.section3_refs) :
                      r.reference \in {SEE_ATT \o StrOf(k), ATT \o StrOf(k)}
                /\ Len(dr.section2_refs) = Len(own(section2))
                /\ Len(dr.section3_refs) = Len(own(section3))

\* the investigation section cites attachments 1 and 10, ten attachments or
\* more were uploaded, and entries 1 and 10 each got their reference
C7_Witness ==
    /\ pc = "done"
    /\ Len(checklist.attachments) >= 10
    /\ \E r \in Range(section2.attachment_refs) : r.number = <<"1">>
    /\ \E r \in Range(section2.attachment_refs) : r.number = <<"1", "0">>
    /\ Len(checklist.attachments[1].document_references.section2_refs) = 1
    /\ Len(checklist.attachments[10].document_references.section2_refs) = 1

-----------------------------------------------------------------------------
(* Section splitting on its own: documents whose headings come in any order, *)
(* with some headings absent                                                *)

MaxHeadings == 2

\* the heading forms a document may carry for each section
HeadingForms ==
    [section1 |-> {<<"1", ".">> \o section_patterns.section1.label},
     section2 |-> {HEADING_2},
     section3 |-> {<<"U+4E09", " ">> \o section_patterns.section3.label},
     section4 |-> {<<"U+56DB", "U+3001">> \o ATT,
                   <<"4", "U+FF0E">> \o ATT \o <<"U+5217", "U+8868">>}]

\* 见附件4、附件5  a citation whose tail reads as a section-4 heading
CITE_4_5 == SEE_ATT \o <<"4", "U+3001">> \o ATT \o <<"5">>

SectionBodies == {<<>>, <<NL, "a", "b", NL>>, <<NL>> \o CITE_4_5 \o <<NL>>}

\* the orders in which at most n distinct headings may appear
RECURSIVE HeadingOrders(_)
HeadingOrders(n) ==
    IF n = 0 THEN {<<>>}
    ELSE LET shorter == HeadingOrders(n - 1)
         IN  shorter \cup
             {Append(o, k) : o \in {x \in shorter : Len(x) = n - 1}, k \in SectionKeys}

Distinct(o) == \A i, j \in 1..Len(o) : i # j => o[i] # o[j]

RECURSIVE TextsOf(_)
TextsOf(o) ==
    IF o = <<>> THEN {<<>>}
    ELSE {h \o b \o rest : h \in HeadingForms[Head(o)], b \in SectionBodies,
                           rest \in TextsOf(Tail(o))}

Preambles == {<<>>, <<"t", NL>>}

SectionDocuments ==
    UNION {{[file_name |-> <<"d">>, content |-> p \o t] : p \in Preambles, t \in TextsOf(o)} :
           o \in {x \in HeadingOrders(MaxHeadings) : Distinct(x)}}

InitSections ==
    /\ pc = "sections_call"
    /\ doc_result \in SectionDocuments
    /\ ocr_results = Idle /\ section2 = Idle /\ section3 = Idle /\ checklist = Idle
    /\ arg = Idle /\ ret = Idle

\* self._split_sections(content)
CallSplitSections ==
    /\ pc = "sections_call"
    /\ arg' = doc_result.content
    /\ ret' = split_sections(doc_result.content)
    /\ pc' = "split_done"
    /\ UNCHANGED <<doc_result, ocr_results, section2, section3, checklist>>

\* parse_document(doc_result)
CallParseDocument ==
    /\ pc = "sections_call"
    /\ arg' = doc_result.content
    /\ ret' = parse_document(doc_result)
    /\ pc' = "parse_done"
    /\ UNCHANGED <<doc_result, ocr_results, section2, section3, checklist>>

NextSections == CallSplitSections \/ CallParseDocument

SpecSections == InitSections /\ [][NextSections]_vars

\* the start offsets of the headings found in a text
FoundStarts(t) == {HeadingStart(t, k) : k \in SectionKeys} \ {-1}

\* the start offset of the next heading by position, or the text's length
NextStart(t, s) ==
    LET later == {x \in FoundStarts(t) : x > s}
    IN  IF later = {} THEN Len(t) ELSE CHOOSE e \in later : \A x \in later : e <= x

\* the start offsets are pairwise distinct and the spans pairwise disjoint
SpansDisjoint(t, keys) ==
    \A j, k \in keys :
        j # k =>
            /\ HeadingStart(t, j) # HeadingStart(t, k)
            /\ \/ NextStart(t, HeadingStart(t, j)) <= HeadingStart(t, k)
               \/ NextStart(t, HeadingStart(t, k)) <= HeadingStart(t, j)

\* C11 as claimed: the text of each section is the span of the document from
\* its heading's start offset to the start offset of the next heading by
\* position (the document end for the last); spans never overlap and start
\* offsets are strictly ordered.
C11_SectionTextIsSpan ==
    pc = "split_done" =>
        /\ \A k \in DOMAIN ret :
              ret[k] = Slice(arg, HeadingStart(arg, k), NextStart(arg, HeadingStart(arg, k)))
        /\ SpansDisjoint(arg, DOMAIN ret)

\* C11 amended: the text of each section is that span with its leading and
\* trailing whitespace stripped; spans never overlap and start offsets are
\* strictly ordered, whatever the order of the headings.
C11_SectionTextIsStrippedSpan ==
    pc = "split_done" =>
        /\ \A k \in DOMAIN ret :
              ret[k] = Strip(Slice(arg, HeadingStart(arg, k),
                                   NextStart(arg, HeadingStart(arg, k))))
        /\ SpansDisjoint(arg, DOMAIN ret)

\* section 3 stands before section 2 in the document, and section 3's span
\* ends in a line break that its text does not carry
C11_Witness ==
    /\ pc = "split_done"
    /\ {"section2", "section3"} \subseteq DOMAIN ret
    /\ HeadingStart(arg, "section3") < HeadingStart(arg, "section2")
    /\ NextStart(arg, HeadingStart(arg, "section3")) = HeadingStart(arg, "section2")
    /\ arg[HeadingStart(arg, "section2")] = NL
    /\ ret["section3"][Len(ret["section3"])] # NL

\* the section keys whose heading pattern matches nowhere in the text
AbsentKeys(t) == {k \in SectionKeys : HeadingStart(t, k) = -1}

\* the field of parse_document's result that holds a section key
ParsedSection(parsed, k) ==
    CASE k = "section1" -> parsed.sections.section1_original_complaint
      [] k = "section2" -> parsed.sections.section2_investigation
      [] k = "section3" -> parsed.sections.section3_handling
      [] k = "section4" -> parsed.sections.section4_attachments

\* C12: _split_sections returns exactly the sections whose heading occurs in
\* the document; parse_document gives an absent section the content '' and,
\* for sections 2 and 3, an empty reference list, and a present section its
\* non-empty text.
C12_AbsentSectionOmitted ==
    /\ pc = "split_done" => DOMAIN ret = SectionKeys \ AbsentKeys(arg)
    /\ pc = "parse_done" =>
          \A k \in SectionKeys :
              /\ (k \in AbsentKeys(arg)) <=> (ParsedSection(ret, k).content = <<>>)
              /\ (k \in AbsentKeys(arg) /\ k \in {"section2", "section3"}) =>
                    ParsedSection(ret, k).attachment_refs = <<>>

\* a document with only the section-2 and section-4 headings has been parsed
C12_Witness ==
    /\ pc = "parse_done"
    /\ AbsentKeys(arg) = {"section1", "section3"}
    /\ ret.sections.section1_original_complaint.content = <<>>
    /\ ret.sections.section3_handling = [content |-> <<>>, attachment_refs |-> <<>>]
    /\ ret.sections.section2_investigation.content # <<>>
    /\ ret.sections.section4_attachments.content # <<>>

-----------------------------------------------------------------------------
(* AttachmentNameChecker.extract_attachment_info_from_filename; the same    *)
(* parsing is done by ImageInfoExtractor._parse_attachment_name             *)

\* str.strip(chars)
RECURSIVE LStripChars(_, _)
LStripChars(s, cs) == IF s # <<>> /\ Head(s) \in cs THEN LStripChars(Tail(s), cs) ELSE s

RECURSIVE RStripChars(_, _)
RStripChars(s, cs) ==
    IF s # <<>> /\ s[Len(s)] \in cs THEN RStripChars(SubSeq(s, 1, Len(s) - 1), cs) ELSE s

StripChars(s, cs) == RStripChars(LStripChars(s, cs), cs)

\* the position of the last '.' of s, or 0
LastDot(s) ==
    LET dots == {i \in 1..Len(s) : s[i] = "."}
    IN  IF dots = {} THEN 0 ELSE CHOOSE i \in dots : \A j \in dots : j <= i

\* mutant: the name is cut at its first '.'
split_at_first_dot(filename) ==
    LET dots == {i \in 1..Len(filename) : filename[i] = "."}
        p == IF dots = {} THEN 0 ELSE CHOOSE i \in dots : \A j \in dots : i <= j
    IN  IF p = 0 THEN <<filename, <<>>>>
        ELSE <<SubSeq(filename, 1, p - 1), SubSeq(filename, p + 1, Len(filename))>>

\* filename.rsplit('.', 1): <<name_without_ext, file_ext>>
rsplit_ext(filename) ==
    IF LastDot(filename) = 0 THEN <<filename, <<>>>>
    ELSE <<SubSeq(filename, 1, LastDot(filename) - 1),
           SubSeq(filename, LastDot(filename) + 1, Len(filename))>>

\* re.match(r'^(\d+)-(.*)$', stem): <<group(1), group(2)>>, or <<>> for no
\* match.  '.' matches no line break and '$' also matches just before a final
\* line break, which then stays outside group(2).
match_number_name(stem) ==
    LET d    == DigitRun(stem, 1)
        rest == SubSeq(stem, d + 2, Len(stem))
        body == IF rest # <<>> /\ rest[Len(rest)] = NL
                THEN SubSeq(rest, 1, Len(rest) - 1) ELSE rest
    IN  IF d >= 1 /\ At(stem, d + 1, {"-"}) /\ NL \notin Range(body)
        THEN <<SubSeq(stem, 1, d), body>>
        ELSE <<>>

\* name_part.strip('-').strip()
clean_name(name_part) == Strip(StripChars(name_part, {"-"}))

extract_attachment_info_from_filename(filename) ==
    LET parts == rsplit_ext(filename)
        match == match_number_name(parts[1])
    IN  IF match # <<>>
        THEN [number |-> match[1], name |-> clean_name(match[2]),
              filename |-> filename, file_ext |-> parts[2], parsed |-> TRUE]
        ELSE [number |-> <<>>, name |-> filename,
              filename |-> filename, file_ext |-> parts[2], parsed |-> FALSE]

MaxNameLen == 5

NameAlphabet == {"1", "-", " ", ".", "a"}

\* "6-18638511201.jpg", "3--.jpg", "notes.txt"
NAME_6 == <<"6", "-", "1", "8", "6", "3", "8", "5", "1", "1", "2", "0", "1", ".", "j", "p", "g">>

NAME_3 == <<"3", "-", "-", ".", "j", "p", "g">>

NAME_NOTES == <<"n", "o", "t", "e", "s", ".", "t", "x", "t">>

FileNames ==
    {NAME_6, NAME_3, NAME_NOTES} \cup
    UNION {[1..n -> NameAlphabet] : n \in 0..MaxNameLen}

InitFilename ==
    /\ pc = "filename_call"
    /\ arg \in FileNames
    /\ doc_result = Idle /\ ocr_results = Idle /\ section2 = Idle /\ section3 = Idle
    /\ checklist = Idle /\ ret = Idle

CallExtractInfoFromFilename ==
    /\ pc = "filename_call"
    /\ ret' = extract_attachment_info_from_filename(arg)
    /\ pc' = "filename_done"
    /\ UNCHANGED <<doc_result, ocr_results, section2, section3, checklist, arg>>

NextFilename == CallExtractInfoFromFilename

SpecFilename == InitFilename /\ [][NextFilename]_vars

\* f = stem, or f = stem '.' ext with no '.' in ext
IsExtSplit(f, stem, ext) ==
    \/ "." \notin Range(f) /\ stem = f /\ ext = <<>>
    \/ f = stem \o <<".">> \o ext /\ "." \notin Range(ext)

\* the stem starts with k >= 1 digits followed by a hyphen
LeadingOrdinal(stem, k) ==
    /\ k >= 1 /\ k < Len(stem)
    /\ \A j \in 1..k : IsDigit(stem[j])
    /\ stem[k + 1] = "-"

\* C13: parsed is true exactly when the name without its last extension is a
\* digit run, a hyphen and any text; number is then the leading digit run and
\* file_ext the text after the last dot.  "6-18638511201.jpg" gives number
\* "6", name "18638511201", extension "jpg"; "3--.jpg" gives number "3" and
\* name ""; "notes.txt" is not parsed.
C13_FilenameParse ==
    pc = "filename_done" =>
        /\ \E p \in 0..Len(arg) :
              LET stem == SubSeq(arg, 1, IF p = 0 THEN Len(arg) ELSE p - 1)
                  ext  == IF p = 0 THEN <<>> ELSE SubSeq(arg, p + 1, Len(arg))
              IN  /\ IsExtSplit(arg, stem, ext)
                  /\ ret.file_ext = ext
                  /\ ret.parsed <=> \E k \in 1..Len(stem) : LeadingOrdinal(stem, k)
                  /\ \A k \in 1..Len(stem) :
                        LeadingOrdinal(stem, k) => ret.number = SubSeq(stem, 1, k)
        /\ arg = NAME_6 =>
              /\ ret.parsed /\ ret.number = <<"6">> /\ ret.file_ext = <<"j", "p", "g">>
              /\ ret.name = SubSeq(NAME_6, 3, 13)
        /\ arg = NAME_3 => ret.parsed /\ ret.number = <<"3">> /\ ret.name = <<>>
        /\ arg = NAME_NOTES => ~ret.parsed

\* a name with two dots has been parsed: only the last extension is removed
C13_Witness ==
    /\ pc = "filename_done"
    /\ ret.parsed
    /\ Cardinality({i \in 1..Len(arg) : arg[i] = "."}) = 2
    /\ ret.file_ext = <<"a">>

\* C14 as claimed: the label of a parsed filename neither begins nor ends
\* with a hyphen or a whitespace character.
C14_LabelTrimmed ==
    (pc = "filename_done" /\ ret.parsed /\ ret.name # <<>>) =>
        /\ Head(ret.name) \notin {"-", " ", NL, "U+0009"}
        /\ ret.name[Len(ret.name)] \notin {"-", " ", NL, "U+0009"}

-----------------------------------------------------------------------------
(* AttachmentNameChecker.check_attachment_names *)

\* Python's None, where a file name (a sequence of characters) could stand
None == <<"None">>

\* the first index i of seq with Test(seq[i]), or 0
FirstIndex(seq, Test(_)) ==
    LET hits == {i \in 1..Len(seq) : Test(seq[i])}
    IN  IF hits = {} THEN 0 ELSE CHOOSE i \in hits : \A j \in hits : i <= j

\* the concatenation of the sequences f(1), ..., f(n)
RECURSIVE FlatMap(_, _)
FlatMap(f, n) == IF n = 0 THEN <<>> ELSE FlatMap(f, n - 1) \o f[n]

\* mutant: ordinals compared as integers
same_number_as_int(upload_number, doc_num) ==
    /\ upload_number # <<>> /\ doc_num # <<>>
    /\ IntOf(upload_number) = IntOf(doc_num)

\* uploaded_info['number'] == doc_num
same_number(upload_number, doc_num) == upload_number = doc_num

\* the index of the upload matched to a declared attachment, or 0
matched_upload(doc_att, uploaded_att_info) ==
    FirstIndex(uploaded_att_info,
               LAMBDA info : same_number(info.number, Get(doc_att, "number", <<>>)))

\* what the second loop appends for one declared attachment:
\* <<issues, matched_attachments entry>>
declared_outcome(doc_att, uploaded_att_info) ==
    LET doc_num  == Get(doc_att, "number", <<>>)
        doc_name == Get(doc_att, "name", <<>>)
        i        == matched_upload(doc_att, uploaded_att_info)
    IN  IF i > 0
        THEN LET info == uploaded_att_info[i]
             IN  <<IF /\ doc_name # <<>> /\ info.name # <<>>
                      /\ ~Contains(info.name, doc_name)
                      /\ ~Contains(doc_name, info.name)
                   THEN <<[severity |-> "warning", type |-> "name_mismatch",
                           attachment_number |-> doc_num, doc_name |-> doc_name,
                           file_name |-> info.name]>>
                   ELSE <<>>,
                   [number |-> doc_num, doc_name |-> doc_name,
                    file_name |-> info.filename, extracted_name |-> info.name,
                    status |-> "matched"]>>
        ELSE <<<<[severity |-> "critical", type |-> "attachment_not_found",
                  attachment_number |-> doc_num, doc_name |-> doc_name]>>,
               [number |-> doc_num, doc_name |-> doc_name,
                file_name |-> None, extracted_name |-> None,
                status |-> "not_found"]>>

\* mutant: an upload is looked up among the declared numbers whether or not
\* its name parsed
takes_part_unparsed(info) == TRUE

\* if uploaded_info['parsed']
takes_part(info) == info.parsed

\* any(att['number'] == number for att in section4_attachments): "found",
\* "not_found", or "KeyError" when an entry without the key 'number' is
\* reached before an entry with that number
any_declared(section4_attachments, number) ==
    LET hit  == FirstIndex(section4_attachments,
                           LAMBDA att : "number" \in DOMAIN att /\ att.number = number)
        miss == FirstIndex(section4_attachments, LAMBDA att : "number" \notin DOMAIN att)
    IN  IF miss > 0 /\ (hit = 0 \/ miss < hit) THEN "KeyError"
        ELSE IF hit > 0 THEN "found" ELSE "not_found"

check_attachment_names(section4_attachments, uploaded_files) ==
    LET uploaded_att_info ==
            [i \in 1..Len(uploaded_files) |->
                extract_attachment_info_from_filename(uploaded_files[i])]
        outcome == [k \in 1..Len(section4_attachments) |->
                        declared_outcome(section4_attachments[k], uploaded_att_info)]
        lookup == [i \in 1..Len(uploaded_files) |->
                        IF takes_part(uploaded_att_info[i])
                        THEN any_declared(section4_attachments, uploaded_att_info[i].number)
                        ELSE "skipped"]
        unlisted == SelectSeq([i \in 1..Len(uploaded_files) |-> i],
                              LAMBDA i : lookup[i] = "not_found")
        matched_attachments == [k \in 1..Len(section4_attachments) |-> outcome[k][2]]
    IN  IF \E i \in 1..Len(uploaded_files) : lookup[i] = "KeyError"
        THEN [exception |-> "KeyError"]
        ELSE [matched_attachments |-> matched_attachments,
              unmatched_files |-> [j \in 1..Len(unlisted) |-> uploaded_files[unlisted[j]]],
              issues |->
                  FlatMap([k \in 1..Len(section4_attachments) |-> outcome[k][1]],
                          Len(section4_attachments))
                  \o [j \in 1..Len(unlisted) |->
                        [severity |-> "warning", type |-> "unlisted_file",
                         file_name |-> uploaded_files[unlisted[j]]]],
              total_doc_attachments |-> Len(section4_attachments),
              total_uploaded_files |-> Len(uploaded_files),
              matched_count |->
                  Len(SelectSeq(matched_attachments, LAMBDA a : a.status = "matched"))]

MaxDeclared == 2

MaxUploads == 2

\* the declared attachment list of the document: ordinals 1, 01 and 10, an
\* empty ordinal, and an entry without the key 'number'
DeclaredEntries ==
    {[number |-> <<"1">>, name |-> <<"a">>],
     [number |-> <<"1">>, name |-> <<>>],
     [number |-> <<"0", "1">>, name |-> <<"a">>],
     [number |-> <<"1", "0">>, name |-> <<"b">>],
     [number |-> <<>>, name |-> <<"a">>],
     [name |-> <<"a">>]}

\* "1-a.jpg", "1-b.jpg", "01-a.jpg", "10-c.jpg", "2-.jpg", "notes.txt"
UploadNames ==
    {<<"1", "-", "a", ".", "j", "p", "g">>,
     <<"1", "-", "b", ".", "j", "p", "g">>,
     <<"0", "1", "-", "a", ".", "j", "p", "g">>,
     <<"1", "0", "-", "c", ".", "j", "p", "g">>,
     <<"2", "-", ".", "j", "p", "g">>,
     NAME_NOTES}

InitNames ==
    /\ pc = "names_call"
    /\ arg \in {[section4_attachments |-> d, uploaded_files |-> u] :
                    d \in UNION {[1..n -> DeclaredEntries] : n \in 0..MaxDeclared},
                    u \in UNION {[1..n -> UploadNames] : n \in 0..MaxUploads}}
    /\ doc_result = Idle /\ ocr_results = Idle /\ section2 = Idle /\ section3 = Idle
    /\ checklist = Idle /\ ret = Idle

CallCheckAttachmentNames ==
    /\ pc = "names_call"
    /\ ret' = check_attachment_names(arg.section4_attachments, arg.uploaded_files)
    /\ pc' = "names_done"
    /\ UNCHANGED <<doc_result, ocr_results, section2, section3, checklist, arg>>

NextNames == CallCheckAttachmentNames

SpecNames == InitNames /\ [][NextNames]_vars

\* the call returned a report (it did not raise)
Returned == pc = "names_done" /\ "exception" \notin DOMAIN ret

Declared == arg.section4_attachments

DeclaredNumber(k) == Get(Declared[k], "number", <<>>)

UploadInfo(i) == extract_attachment_info_from_filename(arg.uploaded_files[i])

UploadIndexes == 1..Len(arg.uploaded_files)

\* the uploads whose ordinal is string-equal to the number of declared entry k
UploadsFor(k) == {i \in UploadIndexes : UploadInfo(i).number = DeclaredNumber(k)}

\* how many elements of seq satisfy Test
Count(seq, Test(_)) == Cardinality({i \in 1..Len(seq) : Test(seq[i])})

C17_UnparsedNeverMatched ==
    Returned =>
        \A k \in 1..Len(Declared) :
            \A i \in UploadIndexes :
                ~UploadInfo(i).parsed =>
                    ret.matched_attachments[k].file_name # arg.uploaded_files[i]

-----------------------------------------------------------------------------
(* The three places where values are extracted from an attachment's        *)
(* transcript: AttachmentAnalyzer._extract_attachment_info,                 *)
(* ImageInfoExtractor._extract_key_info (AI client present) and             *)
(* ComplaintReviewer._build_pic_input_basic (no AI client)                  *)

\* 1[3-9]\d{9}
PhoneBasicEnd(t, i) ==
    IF /\ At(t, i, {"1"})
       /\ At(t, i + 1, {"3", "4", "5", "6", "7", "8", "9"})
       /\ \A k \in 2..10 : At(t, i + k, Digits)
    THEN i + 11 ELSE 0

\* \d+\.?\d*元
AmountBasicEnd(t, i) ==
    LET c == i + DigitRun(t, i)
        e == IF At(t, c, {"."}) THEN c + 1 ELSE c
        f == e + DigitRun(t, e)
    IN  IF c > i /\ At(t, f, {"U+5143"}) THEN f + 1 ELSE 0

\* \d{4}[-年]\d{1,2}[-月]\d{1,2}[日号]?
DateBasicEnd(t, i) ==
    LET mm == DigitRun(t, i + 5)
        p  == i + 5 + mm + 1
        dd == Min(2, DigitRun(t, p))
    IN  IF /\ \A k \in 0..3 : At(t, i + k, Digits)
           /\ At(t, i + 4, {"-", "U+5E74"})
           /\ mm \in {1, 2}
           /\ At(t, i + 5 + mm, {"-", "U+6708"})
           /\ dd >= 1
        THEN IF At(t, p + dd, {"U+65E5", "U+53F7"}) THEN p + dd + 1 ELSE p + dd
        ELSE 0

FindPhonesBasic(t) == Range(Matched(t, Scan([i \in 1..Len(t) |-> PhoneBasicEnd(t, i)], 1)))

FindAmountsBasic(t) == Range(Matched(t, Scan([i \in 1..Len(t) |-> AmountBasicEnd(t, i)], 1)))

FindDatesBasic(t) == Range(Matched(t, Scan([i \in 1..Len(t) |-> DateBasicEnd(t, i)], 1)))

NEAR_GAP == 20

\* 业务 签约 办理 开通 套餐
BusinessWords ==
    {<<"U+4E1A", "U+52A1">>, <<"U+7B7E", "U+7EA6">>, <<"U+529E", "U+7406">>,
     <<"U+5F00", "U+901A">>, <<"U+5957", "U+9910">>}

\* 联系 备用 家人 沟通
ContactWords ==
    {<<"U+8054", "U+7CFB">>, <<"U+5907", "U+7528">>, <<"U+5BB6", "U+4EBA">>,
     <<"U+6C9F", "U+901A">>}

\* re.search(rf'(w1|..).{{0,20}}{phone}|{phone}.{{0,20}}(w1|..)', content):
\* a word and the phone at most 20 characters apart, no line break between
Near(content, words, phone) ==
    \E i, j \in 1..Len(content) :
        \E w \in words :
            /\ HasAt(content, i, phone) /\ HasAt(content, j, w)
            /\ \/ j + Len(w) <= i /\ i - (j + Len(w)) <= NEAR_GAP
                  /\ \A k \in (j + Len(w))..(i - 1) : content[k] # NL
               \/ i + Len(phone) <= j /\ j - (i + Len(phone)) <= NEAR_GAP
                  /\ \A k \in (i + Len(phone))..(j - 1) : content[k] # NL

\* the loop over phone_numbers: <<business_numbers, contact_numbers>>
RECURSIVE split_numbers(_, _, _)
split_numbers(content, phones, acc) ==
    IF phones = <<>> THEN acc
    ELSE LET phone == Head(phones)
         IN  split_numbers(content, Tail(phones),
                 IF Near(content, BusinessWords, phone) THEN <<Append(acc[1], phone), acc[2]>>
                 ELSE IF Near(content, ContactWords, phone) THEN <<acc[1], Append(acc[2], phone)>>
                 ELSE IF acc[1] = <<>> THEN <<Append(acc[1], phone), acc[2]>>
                 ELSE <<acc[1], Append(acc[2], phone)>>)

\* _extract_key_info: the number, amount and date fields.  phone_numbers is
\* the set of matches in the order list(set(..)) happens to give; the plan
\* name, service type and attachment name fields are left out.
extract_key_info(content, phone_numbers) ==
    [business_numbers |-> split_numbers(content, phone_numbers, <<<<>>, <<>>>>)[1],
     contact_numbers |-> split_numbers(content, phone_numbers, <<<<>>, <<>>>>)[2],
     all_numbers |-> Range(phone_numbers),
     amounts |-> FindAmountsBasic(content),
     dates |-> FindDatesBasic(content)]

MIN_READABLE == 10

\* the status branch of _build_pic_input_basic
basic_status(result, phone_numbers, amounts) ==
    IF Get(result, "error", <<>>) # <<>> \/ Len(Strip(Get(result, "content", <<>>))) < MIN_READABLE
    THEN "blurry"
    ELSE IF phone_numbers = {} /\ amounts = {} THEN "no_core_info"
    ELSE "recognizable"

\* the entry appended for one attachment that is not a PDF
basic_entry(idx, result) ==
    LET content == Get(result, "content", <<>>)
    IN  [variable |-> <<"f", "i", "l", "e">> \o StrOf(idx),
         attachment |-> ATT \o StrOf(idx),
         file_name |-> Get(result, "file_name", ATT \o StrOf(idx)),
         status |-> basic_status(result, FindPhonesBasic(content), FindAmountsBasic(content)),
         all_numbers |-> FindPhonesBasic(content),
         amounts |-> FindAmountsBasic(content),
         dates |-> FindDatesBasic(content)]

is_pdf_basic(result) == StrLower(Get(result, "file_type", <<>>)) = <<".", "p", "d", "f">>

build_pic_input_basic(ocr) ==
    LET kept    == SelectSeq([i \in 1..Len(ocr) |-> i], LAMBDA i : ~is_pdf_basic(ocr[i]))
        entries == [j \in 1..Len(kept) |-> basic_entry(kept[j], ocr[kept[j]])]
    IN  [results |-> entries,
         overall |->
            [recognizable |-> Len(SelectSeq(entries, LAMBDA e : e.status = "recognizable")),
             blurry |-> Len(SelectSeq(entries, LAMBDA e : e.status = "blurry")),
             no_core_info |-> Len(SelectSeq(entries, LAMBDA e : e.status = "no_core_info")),
             total |-> Len(ocr)]]

MinRun == 9

MaxRun == 16

\* a digit run of n digits that starts like a mobile number: 1390...0
DigitRunOf(n) == <<"1", "3", "9">> \o Rep("0", n - 3)

\* what stands left of the digit run: nothing, a space, a Latin letter, a CJK
\* character (号), a full-width colon, or 业务 and a full-width colon
RunLefts ==
    {<<>>, <<" ">>, <<"a">>, <<"U+53F7">>, <<"U+FF1A">>, <<"U+4E1A", "U+52A1", "U+FF1A">>}

\* what stands right of it: a space, a Latin letter, a CJK character (户), a comma
RunRights == {<<" ">>, <<"a">>, <<"U+6237">>, COMMA}

\* "100元", "¥ 100 元", "1.5元", "2024年1月2号"
AmountTails ==
    {<<>>, AMT_100, <<"U+00A5", " ", "1", "0", "0", " ", "U+5143">>,
     <<"1", ".", "5", "U+5143">>,
     <<"2", "0", "2", "4", "U+5E74", "1", "U+6708", "2", "U+53F7">>}

ExtractTexts ==
    {l \o DigitRunOf(n) \o r \o a :
        l \in RunLefts, n \in MinRun..MaxRun, r \in RunRights, a \in AmountTails}

\* the record of one attachment: an image, an image whose recognition failed,
\* or a PDF
ExtractRecords ==
    {[file_name |-> <<"1", "-", "a", ".", "j", "p", "g">>, content |-> t,
      file_type |-> <<".", "j", "p", "g">>] : t \in ExtractTexts}
    \cup {[file_name |-> <<"1", "-", "a", ".", "j", "p", "g">>, content |-> t,
           file_type |-> <<".", "j", "p", "g">>, error |-> <<"e">>] : t \in ExtractTexts}
    \cup {[file_name |-> <<"1", "-", "a", ".", "p", "d", "f">>, content |-> t,
           file_type |-> <<".", "P", "D", "F">>] : t \in ExtractTexts}

InitExtract ==
    /\ pc = "extract_call"
    /\ ocr_results \in {<<r>> : r \in ExtractRecords}
    /\ doc_result = Idle /\ section2 = Idle /\ section3 = Idle /\ checklist = Idle
    /\ arg = Idle /\ ret = Idle

\* the orders in which list(set(..)) may give the elements of S
Orders(S) == {o \in [1..Cardinality(S) -> S] : Range(o) = S}

\* AttachmentAnalyzer._extract_attachment_info(content)
AnalyzerExtract ==
    /\ pc = "extract_call"
    /\ arg' = ocr_results[1].content
    /\ ret' = extract_attachment_info(ocr_results[1].content)
    /\ pc' = "analyzer_info"
    /\ UNCHANGED <<doc_result, ocr_results, section2, section3, checklist>>

\* ImageInfoExtractor._extract_key_info(content, idx, filename)
ImageExtract ==
    /\ pc = "extract_call"
    /\ arg' = ocr_results[1].content
    /\ \E order \in Orders(FindPhones(ocr_results[1].content)) :
          ret' = extract_key_info(ocr_results[1].content, order)
    /\ pc' = "image_info"
    /\ UNCHANGED <<doc_result, ocr_results, section2, section3, checklist>>

\* ComplaintReviewer._build_pic_input_basic(ocr_results)
BasicExtract ==
    /\ pc = "extract_call"
    /\ arg' = ocr_results[1].content
    /\ ret' = build_pic_input_basic(ocr_results)
    /\ pc' = "basic_info"
    /\ UNCHANGED <<doc_result, ocr_results, section2, section3, checklist>>

NextExtract == AnalyzerExtract \/ ImageExtract \/ BasicExtract

SpecExtract == InitExtract /\ [][NextExtract]_vars

\* the phone numbers a path returned for the transcript
ReturnedPhones ==
    CASE pc = "analyzer_info" -> ret.phone_numbers
      [] pc = "image_info" -> ret.all_numbers
      [] pc = "basic_info" -> UNION {e.all_numbers : e \in Range(ret.results)}
      [] OTHER -> {}

\* ph stands in t as a token of its own: no digit right before or after it
StandsAlone(t, ph) ==
    \E i \in 1..Len(t) :
        HasAt(t, i, ph) /\ ~At(t, i - 1, Digits) /\ ~At(t, i + Len(ph), Digits)

\* C18 as claimed: every phone number that any of the three paths returns
\* for a transcript is an 11-digit token 1[3-9]......... that is not part of
\* a longer digit run.
C18_PhonesAreWholeTokens ==
    \A ph \in ReturnedPhones :
        /\ Len(ph) = 11 /\ ph[1] = "1" /\ ph[2] \in {"3", "4", "5", "6", "7", "8", "9"}
        /\ StandsAlone(arg, ph)

\* the maximal digit runs of t that are 10 to 15 digits long
WholeRuns(t) ==
    {SubSeq(t, i, i + DigitRun(t, i) - 1) :
        i \in {j \in 1..Len(t) : /\ IsDigit(t[j]) /\ ~At(t, j - 1, Digits)
                                 /\ DigitRun(t, j) \in 10..15}}

\* C19 as claimed: the business numbers are exactly the digit runs of 10 to
\* 15 digits that no other digit touches, whatever else surrounds them.
C19_BusinessNumbersAreWholeRuns ==
    pc = "analyzer_info" => ret.business_numbers = WholeRuns(arg)

\* a is: an optional yen sign, digits with an optional decimal point, 元
PlainAmount(a) ==
    LET b == IF a # <<>> /\ Head(a) = "U+00A5" THEN Tail(a) ELSE a
    IN  AmountBasicEnd(b, 1) = Len(b) + 1

\* C20 as claimed: every amount returned by _extract_attachment_info is an
\* optional yen sign, digits with an optional decimal point and 元 right
\* after the digits, without any whitespace.
C20_AmountsHaveNoWhitespace ==
    pc = "analyzer_info" =>
        \A a \in ret.amounts : PlainAmount(a) /\ \A k \in 1..Len(a) : ~IsSpace(a[k])

-----------------------------------------------------------------------------
(* Further properties of the checklist built by generate_attachment_checklist *)

\* C22: every issue of every consistency check has severity warning; the
\* check's critical_issues is 0 and its is_consistent is true.
C22_NoCriticalIssue ==
    \A e \in Entries :
        /\ \A i \in Range(e.consistency_check.issues) : i.severity = "warning"
        /\ e.consistency_check.critical_issues = 0
        /\ e.consistency_check.is_consistent = TRUE
        /\ e.conclusion.status # "fail"

\* two attachments were checked: one raised the phone issue, the other has
\* amounts the narrative lacks and raised none
C22_Witness ==
    /\ \E e \in Entries :
          /\ Len(e.consistency_check.issues) = 1
          /\ e.consistency_check.warnings = 1
          /\ e.conclusion.status = "warning"
    /\ \E e \in Entries :
          /\ ~e.key_content.is_operation_guide
          /\ FieldOf(e, "amounts").match_status.status = "no_match"
          /\ e.consistency_check.issues = <<>>


-----------------------------------------------------------------------------
(* generate_attachment_checklist over records and sections with keys missing *)

MaxRecords == 3

NAME_SCAN == <<"s", "c", "a", "n", ".", "p", "d", "f">>

\* attachment records: complete, with empty content, without content, without
\* file_name, and with no key at all
RecordForms ==
    {[file_name |-> NAME_6, content |-> JoinSp(PHONE_A, AMT_100), file_type |-> "image"],
     [file_name |-> NAME_3, content |-> <<>>],
     [file_name |-> NAME_SCAN],
     [content |-> TAG_GUIDE \o PHONE_B],
     <<>>}

RecordLists == UNION {[1..n -> RecordForms] : n \in 0..MaxRecords}

\* a section of a narrative in which no heading was found is the empty dict
SectionForms ==
    {<<>>,
     [content |-> <<>>, attachment_refs |-> <<RefTo(<<"1">>), RefTo(<<"3">>)>>,
      key_data |-> [phone_numbers |-> <<PHONE_A>>, amounts |-> <<AMT_200>>]]}

InitChecklist ==
    /\ pc = "parsed"
    /\ doc_result = Idle
    /\ arg = Idle
    /\ ret = Idle
    /\ section2 \in SectionForms
    /\ section3 \in SectionForms
    /\ ocr_results \in RecordLists
    /\ checklist = Idle

SpecChecklist == InitChecklist /\ [][NextAnalyzer]_vars

DefaultName(k) == <<"U+9644", "U+4EF6">> \o StrOf(k)

\* C23: generate_attachment_checklist returns one entry per attachment record,
\* in input order, the k-th entry carrying index k and the k-th record's
\* filename, and total_attachments is the number of entries; this also holds
\* for records with empty or missing content and for sections without keys.
C23_OneEntryPerAttachment ==
    pc = "done" =>
        /\ DOMAIN checklist = {"total_attachments", "attachments"}
        /\ checklist.total_attachments = Len(ocr_results)
        /\ Len(checklist.attachments) = Len(ocr_results)
        /\ \A k \in 1..Len(ocr_results) :
              /\ checklist.attachments[k].index = k
              /\ checklist.attachments[k].filename =
                    Get(ocr_results[k], "file_name", DefaultName(k))

C23_Witness ==
    /\ pc = "done"
    /\ section2 = <<>> /\ section3 = <<>>
    /\ Len(ocr_results) = 3
    /\ "content" \notin DOMAIN ocr_results[1]
    /\ ocr_results[2] = <<>>
    /\ Get(ocr_results[3], "content", PHONE_A) = <<>>
    /\ checklist.attachments[3].filename = NAME_3
    /\ checklist.attachments[2].filename = DefaultName(2)

Exempted(e) ==
    /\ e.key_content.is_operation_guide
    /\ Get(e.consistency_check, "skipped", FALSE)
    /\ e.conclusion.status = "pass"

\* C24: an attachment is exempted from consistency checking (is_operation_guide
\* set, check skipped, conclusion 'pass') if and only if its reported
\* content_type is the operation-guide type; a transcript with another type
\* marker is never exempted, even when it contains a guide keyword.
C24_ExemptIffGuideType ==
    \A e \in Entries :
        Exempted(e) <=> (e.key_content.content_type = "operation_guide")

-----------------------------------------------------------------------------
(* Further properties of the report of check_attachment_names *)

\* how often upload i is reported: as the file of a matched entry, or as an
\* unlisted file
TimesMatched(i) ==
    Cardinality({k \in 1..Len(ret.matched_attachments) :
                    ret.matched_attachments[k].file_name = arg.uploaded_files[i]})

TimesUnmatched(i) ==
    Cardinality({k \in 1..Len(ret.unmatched_files) :
                    ret.unmatched_files[k] = arg.uploaded_files[i]})

\* C25: in the report of check_attachment_names every upload whose name parses
\* is accounted for exactly once, as the file_name of one matched entry or as
\* a member of unmatched_files, never both and never neither, also when two
\* uploads carry the same ordinal.  Stated for uploads with distinct names.
C25_ParsedUploadAccountedOnce ==
    (Returned /\ Distinct(arg.uploaded_files)) =>
        \A i \in UploadIndexes :
            UploadInfo(i).parsed => TimesMatched(i) + TimesUnmatched(i) = 1

-----------------------------------------------------------------------------
(* PDFTextExtractor.extract_from_pdf and the checklist entry of a PDF *)

MaxPages == 2

\* full_text += page_text + "\n", page after page
RECURSIVE JoinPages(_)
JoinPages(pages) ==
    IF pages = <<>> THEN <<>>
    ELSE Head(pages) \o <<NL>> \o JoinPages(Tail(pages))

\* the record returned for a PDF that opens.  filtered_text and key_info are
\* computed from full_text and stored beside it; they are left out here, no
\* consumer modelled below reads them.
extract_from_pdf(file_name, pages) ==
    [file_name   |-> file_name,
     file_type   |-> "pdf",
     total_pages |-> Len(pages),
     full_text   |-> JoinPages(pages),
     page_texts  |-> [p \in 1..Len(pages) |-> [page |-> p, text |-> pages[p]]],
     status      |-> "success"]

\* the record returned when opening or reading the PDF raises
extract_from_pdf_failed(file_name) ==
    [file_name |-> file_name, file_type |-> "pdf", error |-> "error",
     status |-> "failed"]

PageTexts ==
    {<<>>, PHONE_A, AMT_100, DATE_1, JoinSp(PHONE_A, AMT_100), TAG_GUIDE \o PHONE_B}

InitPdf ==
    /\ pc = "pdf_call"
    /\ arg \in {[file_name |-> NAME_SCAN, pages |-> p] :
                    p \in UNION {[1..n -> PageTexts] : n \in 0..MaxPages}}
    /\ section2 \in SectionForms
    /\ section3 \in SectionForms
    /\ ocr_results = <<>>
    /\ doc_result = Idle /\ checklist = Idle /\ ret = Idle

\* review_document_stream.generate, the '.pdf' branch of the attachment loop
ExtractFromPdf ==
    /\ pc = "pdf_call"
    /\ ocr_results' = Append(ocr_results, extract_from_pdf(arg.file_name, arg.pages))
    /\ pc' = "parsed"
    /\ UNCHANGED <<doc_result, section2, section3, checklist, arg, ret>>

\* the same branch when the PDF library raises: the except clause answers
ExtractFromPdfFails ==
    /\ pc = "pdf_call"
    /\ ocr_results' = Append(ocr_results, extract_from_pdf_failed(arg.file_name))
    /\ pc' = "parsed"
    /\ UNCHANGED <<doc_result, section2, section3, checklist, arg, ret>>

NextPdf == ExtractFromPdf \/ ExtractFromPdfFails \/ GenerateChecklist

SpecPdf == InitPdf /\ [][NextPdf]_vars

\* C26: when the record that extract_from_pdf produced for a PDF holds a phone
\* number, an amount or a date in its extracted text, the checklist entry
\* built for that attachment lists the value under the field's 'found'.
C26_PdfEntitiesListed ==
    (pc = "done" /\ ocr_results[1].status = "success") =>
        LET text == ocr_results[1].full_text
            kc   == checklist.attachments[1].key_content
        IN  /\ FindPhones(text) \subseteq kc.phone_numbers.found
            /\ FindAmounts(text) \subseteq kc.amounts.found
            /\ FindDates(text) \subseteq kc.dates.found

-----------------------------------------------------------------------------
(* ComplaintReviewer._format_attachment_list *)

MaxListed == 2

MaxFiles == 2

UNKNOWN_NUMBER == <<"U+672A", "U+77E5">>

UNLISTED_PREFIX == <<"U+672A", "U+5217", "U+51FA", "U+7684", "U+9644", "U+4EF6", ":", " ">>

\* att_num in text or att_name in text
names_file(att, text) ==
    \/ Contains(text, Get(att, "number", <<>>))
    \/ Contains(text, Get(att, "name", <<>>))

\* the entry appended for one listed attachment
listed_entry(att, ocr, uploaded_files) ==
    LET f == FirstIndex(uploaded_files, LAMBDA uploaded : names_file(att, uploaded))
        o == FirstIndex(ocr, LAMBDA r : names_file(att, Get(r, "file_name", <<>>)))
    IN  [number        |-> Get(att, "number", <<>>),
         name          |-> Get(att, "name", <<>>),
         full_text     |-> Get(att, "full_text", <<>>),
         uploaded_file |-> IF f > 0 THEN uploaded_files[f] ELSE None,
         has_ocr       |-> o > 0,
         file_type     |-> IF o > 0 THEN Get(ocr[o], "file_type", "") ELSE "",
         status        |-> IF f > 0 THEN "uploaded" ELSE "not_uploaded"]

\* the entry appended for an upload that no entry names
unlisted_entry(uploaded) ==
    [number        |-> UNKNOWN_NUMBER,
     name          |-> uploaded,
     full_text     |-> UNLISTED_PREFIX \o uploaded,
     uploaded_file |-> uploaded,
     has_ocr       |-> TRUE,
     file_type     |-> IF LastDot(uploaded) > 0 THEN rsplit_ext(uploaded)[2] ELSE <<>>,
     status        |-> "unlisted"]

\* the second loop over the first n uploads: an upload is appended unless an
\* entry of the list built so far already carries it
RECURSIVE with_unlisted(_, _, _)
with_unlisted(formatted_list, uploaded_files, n) ==
    IF n = 0 THEN formatted_list
    ELSE LET sofar == with_unlisted(formatted_list, uploaded_files, n - 1)
         IN  IF \E k \in 1..Len(sofar) : sofar[k].uploaded_file = uploaded_files[n]
             THEN sofar
             ELSE Append(sofar, unlisted_entry(uploaded_files[n]))

format_attachment_list(section4, ocr, uploaded_files) ==
    LET listed_attachments == Get(section4, "attachments", <<>>)
        listed == [k \in 1..Len(listed_attachments) |->
                      listed_entry(listed_attachments[k], ocr, uploaded_files)]
    IN  with_unlisted(listed, uploaded_files, Len(uploaded_files))

\* listed attachments: 1 "c", 1 with no name, 2 "d", one without keys
ListedEntries ==
    {[number |-> <<"1">>, name |-> <<"c">>, full_text |-> <<"1", ".", "c">>],
     [number |-> <<"1">>, name |-> <<>>],
     [number |-> <<"2">>, name |-> <<"d">>],
     [number |-> <<"3">>, name |-> <<"e">>]}

\* "1-c.jpg", "10-x.jpg", "x1.jpg", "2-d.pdf"
FormatUploads ==
    {<<"1", "-", "c", ".", "j", "p", "g">>,
     <<"1", "0", "-", "x", ".", "j", "p", "g">>,
     <<"x", "1", ".", "j", "p", "g">>,
     <<"2", "-", "d", ".", "p", "d", "f">>}

\* the record of an upload as the vision model or the PDF extractor returns it
RecordOf(uploaded) ==
    [file_name |-> uploaded,
     file_type |-> IF rsplit_ext(uploaded)[2] = <<"p", "d", "f">> THEN "pdf" ELSE "image"]

InitFormat ==
    /\ pc = "format_call"
    /\ \E l \in UNION {[1..n -> ListedEntries] : n \in 0..MaxListed},
          u \in UNION {[1..n -> FormatUploads] : n \in 0..MaxFiles},
          withList \in BOOLEAN :
            /\ arg = [section4 |-> IF withList THEN [content |-> <<>>, attachments |-> l]
                                   ELSE [content |-> <<>>],
                      uploaded_files |-> u]
            /\ ocr_results = [i \in 1..Len(u) |-> RecordOf(u[i])]
    /\ doc_result = Idle /\ section2 = Idle /\ section3 = Idle
    /\ checklist = Idle /\ ret = Idle

\* ComplaintReviewer.review_complaint_document, step 3.1
CallFormatAttachmentList ==
    /\ pc = "format_call"
    /\ ret' = format_attachment_list(arg.section4, ocr_results, arg.uploaded_files)
    /\ pc' = "format_done"
    /\ UNCHANGED <<doc_result, ocr_results, section2, section3, checklist, arg>>

NextFormat == CallFormatAttachmentList

SpecFormat == InitFormat /\ [][NextFormat]_vars

ListedOf(k) == arg.section4.attachments[k]

\* the upload belongs to the listed attachment: its leading ordinal is the
\* attachment's number, or the attachment has a name and the file name holds it
BelongsTo(uploaded, att) ==
    \/ extract_attachment_info_from_filename(uploaded).number = Get(att, "number", <<>>)
    \/ /\ Get(att, "name", <<>>) # <<>>
       /\ Contains(uploaded, Get(att, "name", <<>>))

\* C27: _format_attachment_list pairs a listed attachment only with an upload
\* that belongs to it: attachment 1 is not reported as uploaded because of a
\* file 10-x.jpg or a file whose name merely contains the digit 1, and an
\* attachment with an empty name is not paired with an arbitrary first upload.
C27_PairedUploadBelongs ==
    (pc = "format_done" /\ "attachments" \in DOMAIN arg.section4) =>
        \A k \in 1..Len(arg.section4.attachments) :
            ret[k].uploaded_file # None => BelongsTo(ret[k].uploaded_file, ListedOf(k))

-----------------------------------------------------------------------------
(* web_app.review_document_stream: the generator behind /api/review-stream.
   pc holds the generator's position (the yield it is suspended at) with the
   loop locals i and current_step; arg is the request with its environment;
   ret is the sequence of events yielded so far; checklist is review_result. *)

MaxStreamFiles == 2

PCT_INIT == 5

PCT_LOOP_BASE == 10

PCT_LOOP_SPAN == 50

PCT_PARSE == 65

PCT_REVIEW == 70

PCT_VALIDATE == 75

PCT_REPORT == 90

PCT_DONE == 100

EXTRA_STEPS == 3

\* the keys of config.get_ai_config() per configured backend
ConfigKeys(config) ==
    IF config = "qwen" THEN {"api_type", "api_key", "model", "vl_model", "base_url"}
    ELSE {"api_type", "api_key", "model", "base_url"}

\* the keyword parameters of AIReviewer.__init__
AIReviewerParams == {"api_key", "model", "api_type", "base_url"}

\* the keyword parameters of ComplaintReviewer.__init__
ComplaintReviewerParams == {"ai_client", "model"}

\* the keywords review_document_stream passes to ComplaintReviewer(...)
ComplaintReviewerKeywords == {"ai_client", "model", "vl_model"}

ProgressEvent(step, percent) == [type |-> "progress", step |-> step, percent |-> percent]

ErrorEvent == [type |-> "error"]

CompleteEvent(result) == [type |-> "complete", success |-> TRUE, result |-> result]

\* int(10 + (current_step / total_steps) * 50)
attachment_percent(current_step, total_steps) ==
    PCT_LOOP_BASE + (PCT_LOOP_SPAN * current_step) \div total_steps

\* the first attachment path at index >= j that exists, or 0
NextExisting(paths, j) ==
    LET rest == {k \in j..Len(paths) : paths[k].exists}
    IN  IF rest = {} THEN 0 ELSE CHOOSE k \in rest : \A m \in rest : k <= m

\* the attachment loop run from index j up to its next yield:
\* <<event, position>>
loop_yield(paths, j, current_step) ==
    LET n == NextExisting(paths, j)
    IN  IF n = 0
        THEN <<ProgressEvent("parse", PCT_PARSE),
               [at |-> "parse", i |-> Len(paths), current_step |-> current_step]>>
        ELSE <<ProgressEvent("attachment",
                             attachment_percent(current_step + 1, Len(paths) + EXTRA_STEPS)),
               [at |-> "attachment", i |-> n, current_step |-> current_step + 1]>>

\* VisionProcessor.process_file: the record of an image; a failed recognition
\* is caught inside and leaves an 'error' key
process_file(file_name, failed) ==
    IF failed
    THEN [file_name |-> file_name, file_type |-> ".jpg", content |-> <<>>, error |-> "error"]
    ELSE [file_name |-> file_name, file_type |-> ".jpg", content |-> PHONE_A]

\* except Exception: yield the error event; the generator then ends
Raise ==
    /\ ret' = Append(ret, ErrorEvent)
    /\ pc' = [pc EXCEPT !.at = "error"]
    /\ UNCHANGED <<doc_result, ocr_results, section2, section3, checklist, arg>>

StreamRequests ==
    {[docx_exists |-> d, attachment_paths |-> a, review_type |-> t, config |-> c,
      raises |-> r] :
        d \in BOOLEAN,
        a \in UNION {[1..n -> [exists : BOOLEAN, pdf : BOOLEAN]] : n \in 0..MaxStreamFiles},
        t \in {"complaint", "comprehensive"},
        c \in {"local", "qwen", "none"},
        r \in {"none", "vision_init", "process_file", "parse", "review", "report"}}

InitStream ==
    /\ pc = [at |-> "start", i |-> 0, current_step |-> 0]
    /\ arg \in StreamRequests
    /\ ret = <<>>
    /\ ocr_results = <<>>
    /\ section2 = <<>> /\ section3 = <<>>
    /\ doc_result = Idle /\ checklist = Idle

\* up to the first yield: the document test, get_ai_config, 'init'
StreamStart ==
    /\ pc.at = "start"
    /\ IF ~arg.docx_exists \/ arg.config = "none"
       THEN Raise
       ELSE /\ ret' = Append(ret, ProgressEvent("init", PCT_INIT))
            /\ pc' = [pc EXCEPT !.at = "init"]
            /\ UNCHANGED <<doc_result, ocr_results, section2, section3, checklist, arg>>

\* the processors are built and the loop runs to its first yield
StreamOpenLoop ==
    /\ pc.at = "init"
    /\ IF arg.raises = "vision_init"
       THEN Raise
       ELSE /\ ret' = Append(ret, loop_yield(arg.attachment_paths, 1, 0)[1])
            /\ pc' = loop_yield(arg.attachment_paths, 1, 0)[2]
            /\ UNCHANGED <<doc_result, ocr_results, section2, section3, checklist, arg>>

\* the attachment announced is extracted and appended, the loop runs on
StreamExtract ==
    /\ pc.at = "attachment"
    /\ ocr_results' = Append(ocr_results,
          IF arg.attachment_paths[pc.i].pdf
          THEN (IF arg.raises = "process_file" THEN extract_from_pdf_failed(NAME_SCAN)
                ELSE extract_from_pdf(NAME_SCAN, <<PHONE_A>>))
          ELSE process_file(NAME_6, arg.raises = "process_file"))
    /\ ret' = Append(ret, loop_yield(arg.attachment_paths, pc.i + 1, pc.current_step)[1])
    /\ pc' = loop_yield(arg.attachment_paths, pc.i + 1, pc.current_step)[2]
    /\ UNCHANGED <<doc_result, section2, section3, checklist, arg>>

\* DocxParser().parse_document, then 'review'
StreamParse ==
    /\ pc.at = "parse"
    /\ IF arg.raises = "parse"
       THEN Raise
       ELSE /\ doc_result' = [file_name |-> <<"d">>, content |-> <<>>]
            /\ ret' = Append(ret, ProgressEvent("review", PCT_REVIEW))
            /\ pc' = [pc EXCEPT !.at = "review"]
            /\ UNCHANGED <<ocr_results, section2, section3, checklist, arg>>

\* what review_complaint_document returns, as far as the stream carries it
complaint_result ==
    [document |-> doc_result.file_name,
     attachment_checklist |-> generate_attachment_checklist(ocr_results, section2, section3)]

\* what AIReviewer.batch_review returns, as far as the stream carries it
general_result == [document |-> doc_result.file_name, reviews |-> arg.review_type]

\* the review: for 'complaint' the reviewer is built, 'review' at 75 is
\* yielded and the review runs after it; otherwise AIReviewer(**ai_config)
\* and batch_review run.  A call with a keyword the callee does not declare
\* raises TypeError.
StreamReview ==
    /\ pc.at \in {"review", "validate"}
    /\ IF pc.at = "review" /\ arg.review_type = "complaint"
       THEN IF arg.raises = "review" \/ ~(ComplaintReviewerKeywords \subseteq ComplaintReviewerParams)
            THEN Raise
            ELSE /\ ret' = Append(ret, ProgressEvent("review", PCT_VALIDATE))
                 /\ pc' = [pc EXCEPT !.at = "validate"]
                 /\ UNCHANGED <<doc_result, ocr_results, section2, section3, checklist, arg>>
       ELSE IF \/ arg.raises = "review"
               \/ pc.at = "review" /\ ~(ConfigKeys(arg.config) \subseteq AIReviewerParams)
            THEN Raise
            ELSE /\ checklist' = IF pc.at = "validate" THEN complaint_result
                                 ELSE general_result
                 /\ ret' = Append(ret, ProgressEvent("report", PCT_REPORT))
                 /\ pc' = [pc EXCEPT !.at = "report"]
                 /\ UNCHANGED <<doc_result, ocr_results, section2, section3, arg>>

\* the JSON and Markdown reports are written, then 'done'
StreamReport ==
    /\ pc.at = "report"
    /\ IF arg.raises = "report"
       THEN Raise
       ELSE /\ ret' = Append(ret, ProgressEvent("done", PCT_DONE))
            /\ pc' = [pc EXCEPT !.at = "done"]
            /\ UNCHANGED <<doc_result, ocr_results, section2, section3, checklist, arg>>

StreamComplete ==
    /\ pc.at = "done"
    /\ ret' = Append(ret, CompleteEvent(checklist))
    /\ pc' = [pc EXCEPT !.at = "complete"]
    /\ UNCHANGED <<doc_result, ocr_results, section2, section3, checklist, arg>>

\* variant: a failing clean-up is reported like any other exception
StreamFinish_unguarded_cleanup ==
    /\ pc.at \in {"complete", "error"}
    /\ pc' = [pc EXCEPT !.at = "end"]
    /\ ret' = IF pc.at = "complete" THEN Append(ret, ErrorEvent) ELSE ret
    /\ UNCHANGED <<doc_result, ocr_results, section2, section3, checklist, arg>>

\* after 'complete' the uploads are removed inside a try of its own; after
\* 'error' the generator returns
StreamFinish ==
    /\ pc.at \in {"complete", "error"}
    /\ pc' = [pc EXCEPT !.at = "end"]
    /\ arg' = IF pc.at = "complete"
              THEN [arg EXCEPT !.docx_exists = FALSE,
                               !.attachment_paths =
                                    [k \in 1..Len(@) |-> [@[k] EXCEPT !.exists = FALSE]]]
              ELSE arg
    /\ UNCHANGED <<doc_result, ocr_results, section2, section3, checklist, ret>>

NextStream ==
    \/ StreamStart \/ StreamOpenLoop \/ StreamExtract \/ StreamParse
    \/ StreamReview \/ StreamReport \/ StreamComplete \/ StreamFinish

SpecStream == InitStream /\ [][NextStream]_vars

\* the consumer iterates the generator until it is exhausted
SpecStreamLive == SpecStream /\ WF_vars(NextStream)

Terminal(e) == e.type \in {"complete", "error"}

\* C28: the events of a run of the review-stream generator are progress
\* events whose percent never decreases, then exactly one terminal event
\* (complete or error) after which nothing is emitted; so a complete event and
\* an error event never occur in one run.
C28_ProgressThenOneTerminal ==
    /\ \A k \in 1..Len(ret) : k < Len(ret) => ret[k].type = "progress"
    /\ \A k \in 1..Len(ret) : ret[k].type \in {"progress", "complete", "error"}
    /\ \A k \in 1..(Len(ret) - 1) :
          ret[k + 1].type = "progress" => ret[k].percent <= ret[k + 1].percent
    /\ pc.at \in {"complete", "error", "end"} <=> (ret # <<>> /\ Terminal(ret[Len(ret)]))

C28_Witness ==
    /\ pc.at = "end"
    /\ Len(ret) = 8
    /\ ret[Len(ret)].type = "complete"
    /\ ret[2].percent < ret[3].percent
    /\ ret[3].step = "attachment"

\* C29: a 'complaint' request with an existing document and collaborators
\* that all succeed eventually gets the complete event carrying the review
\* result with its attachment checklist, and does not end with an error event.
C29_ComplaintStreamCompletes ==
    (/\ pc.at = "start"
     /\ arg.review_type = "complaint"
     /\ arg.docx_exists
     /\ arg.config # "none"
     /\ arg.raises = "none")
        ~> (/\ pc.at = "end"
            /\ ret[Len(ret)].type = "complete"
            /\ "attachment_checklist" \in DOMAIN ret[Len(ret)].result)

-----------------------------------------------------------------------------
(* BatchCaseProcessor.process_batch.  arg is the list of cases with what the
   environment holds for each; doc_result is the frame of the call (results,
   stats, the files written); ret is what the call returns or raises. *)

MaxCases == 3

\* a case: whether its document is found, whether its review raises, and the
\* outcome of _compare_results
CaseForms ==
    {[main_doc |-> FALSE, raises |-> FALSE, match_status |-> "none"],
     [main_doc |-> TRUE,  raises |-> TRUE,  match_status |-> "none"],
     [main_doc |-> TRUE,  raises |-> FALSE, match_status |-> "consistent"],
     [main_doc |-> TRUE,  raises |-> FALSE, match_status |-> "inconsistent"],
     [main_doc |-> TRUE,  raises |-> FALSE, match_status |-> "no_reference"]}

InitBatch ==
    /\ pc = "batch_loop"
    /\ arg \in UNION {[1..n -> CaseForms] : n \in 0..MaxCases}
    /\ doc_result = [results |-> <<>>,
                     stats   |-> [total |-> Len(arg), success |-> 0, failed |-> 0,
                                  matched |-> 0, mismatched |-> 0],
                     saved   |-> {}]
    /\ ret = Idle
    /\ ocr_results = Idle /\ section2 = Idle /\ section3 = Idle /\ checklist = Idle

\* the row appended to results for one case
case_row(idx, case) ==
    IF ~case.main_doc THEN [case |-> idx, match_status |-> "cannot_review"]
    ELSE IF case.raises THEN [case |-> idx, match_status |-> "error"]
    ELSE [case |-> idx, match_status |-> case.match_status]

\* the counters after one case
case_stats(stats, case) ==
    IF ~case.main_doc \/ case.raises
    THEN [stats EXCEPT !.failed = @ + 1]
    ELSE IF case.match_status = "consistent"
    THEN [stats EXCEPT !.success = @ + 1, !.matched = @ + 1]
    ELSE [stats EXCEPT !.success = @ + 1, !.mismatched = @ + 1]

\* one pass of the loop over the cases
ProcessCase ==
    /\ pc = "batch_loop"
    /\ Len(doc_result.results) < Len(arg)
    /\ LET idx == Len(doc_result.results) + 1
       IN  doc_result' = [doc_result EXCEPT
                            !.results = Append(@, case_row(idx, arg[idx])),
                            !.stats   = case_stats(@, arg[idx])]
    /\ UNCHANGED <<pc, ocr_results, section2, section3, checklist, arg, ret>>

\* _save_results: the workbook and statistics.json are written, the summary
\* is opened, and the accuracy line divides matched by success
SaveResults ==
    /\ pc = "batch_loop"
    /\ Len(doc_result.results) = Len(arg)
    /\ IF doc_result.stats.success = 0
       THEN /\ doc_result' = [doc_result EXCEPT !.saved = {"results", "statistics"}]
            /\ ret' = [exception |-> "ZeroDivisionError"]
            /\ pc' = "batch_raised"
       ELSE /\ doc_result' = [doc_result EXCEPT
                                !.saved = {"results", "statistics", "summary"}]
            /\ ret' = doc_result.stats
            /\ pc' = "batch_done"
    /\ UNCHANGED <<ocr_results, section2, section3, checklist, arg>>

NextBatch == ProcessCase \/ SaveResults

SpecBatch == InitBatch /\ [][NextBatch]_vars

\* C30: process_batch isolates per-case failures: for every list of cases,
\* also when every case fails or has no document, each case is processed
\* exactly once, the results are saved, and the statistics returned satisfy
\* success + failed = total and matched + mismatched = success; it never
\* raises.
C30_BatchIsolatesFailures ==
    /\ pc # "batch_raised"
    /\ pc = "batch_done" =>
          /\ Len(doc_result.results) = Len(arg)
          /\ \A k \in 1..Len(arg) : doc_result.results[k].case = k
          /\ doc_result.saved = {"results", "statistics", "summary"}
          /\ ret.success + ret.failed = ret.total
          /\ ret.matched + ret.mismatched = ret.success
=============================================================================
